---- MODULE Spec2Model ----
(***************************************************************************)
(* A model of gdmx, a small f32 vector algebra library (Vec2, Vec3, Vec4,  *)
(* the generic VecExt<N> trait, and the trait/manual equivalence harness). *)
(*                                                                         *)
(* f32 is modelled by a binary floating-point format of the same shape as  *)
(* IEEE 754 binary32 (sign, subnormals, normals of Precision significant   *)
(* bits, round to nearest ties-to-even, overflow to infinity, signed       *)
(* zeros, one NaN) but with a short significand and a short exponent       *)
(* range, so that every value is a small integer multiple of 2^-FracBits.  *)
(***************************************************************************)
EXTENDS Integers, Sequences, FiniteSets, TLC

\* ------------------------------------------------------------------ f32

\* The value of a finite float is mag * 2^-FracBits, negated when neg.
FracBits == 2
\* Number of significant bits: every mag below 2^Precision is representable.
Precision == 5
\* Number of binades above the first one: MaxMag = (2^Precision - 1) * 2^EMax.
EMax == 2

Pow2(e) == 2 ^ e
UnitMag == Pow2(FracBits)
MaxMag == (Pow2(Precision) - 1) * Pow2(EMax)

Fin(neg, mag) == [cls |-> "fin", neg |-> neg, mag |-> mag]
Inf(neg) == [cls |-> "inf", neg |-> neg, mag |-> 0]
NaN == [cls |-> "nan", neg |-> FALSE, mag |-> 0]

IsNaN(x) == x.cls = "nan"
IsInf(x) == x.cls = "inf"
IsFin(x) == x.cls = "fin"
IsZero(x) == x.cls = "fin" /\ x.mag = 0

\* Literals: an integer n, and n / 2^FracBits (n units of the last place).
Lit(n) == Fin(n < 0, (IF n < 0 THEN -n ELSE n) * UnitMag)
Ulps(n) == Fin(n < 0, IF n < 0 THEN -n ELSE n)
PZero == Fin(FALSE, 0)
NZero == Fin(TRUE, 0)
Half == Fin(FALSE, UnitMag \div 2)

\* The binade of the positive rational n / d (in units of the last place):
\* the least e with n / d < 2^(Precision + e), capped at EMax + 1.
Binade(n, d) ==
    CHOOSE e \in 0..(EMax + 1) :
        /\ (e = EMax + 1 \/ n < d * Pow2(Precision + e))
        /\ (e = 0 \/ n >= d * Pow2(Precision + e - 1))

\* Round the non-negative rational n / d to the nearest representable
\* magnitude, ties to even; a result above MaxMag is infinity.
Round(neg, n, d) ==
    LET q == Pow2(Binade(n, d))
        dq == d * q
        k == n \div dq
        r == n % dq
        up == IF 2 * r > dq \/ (2 * r = dq /\ k % 2 = 1) THEN 1 ELSE 0
        m == (k + up) * q
    IN  IF m > MaxMag THEN Inf(neg) ELSE Fin(neg, m)

\* The signed integer value of a finite float, in units of the last place.
SVal(x) == IF x.neg THEN -x.mag ELSE x.mag
Abs(i) == IF i < 0 THEN -i ELSE i

\* -x with the sign bit flipped (used by subtraction; the Neg operator of the
\* vectors is a multiplication by -1.0).
FNegate(x) == IF IsNaN(x) THEN NaN ELSE [x EXCEPT !.neg = ~x.neg]

\* x + y
FAdd(x, y) ==
    IF IsNaN(x) \/ IsNaN(y) THEN NaN
    ELSE IF IsInf(x) /\ IsInf(y) THEN (IF x.neg = y.neg THEN x ELSE NaN)
    ELSE IF IsInf(x) THEN x
    ELSE IF IsInf(y) THEN y
    ELSE LET v == SVal(x) + SVal(y)
         IN  IF v = 0 THEN Fin(x.neg /\ y.neg, 0)
             ELSE Round(v < 0, Abs(v), 1)

\* x - y
FSub(x, y) == FAdd(x, FNegate(y))

\* x * y
FMul(x, y) ==
    IF IsNaN(x) \/ IsNaN(y) THEN NaN
    ELSE IF (IsInf(x) /\ IsZero(y)) \/ (IsZero(x) /\ IsInf(y)) THEN NaN
    ELSE IF IsInf(x) \/ IsInf(y) THEN Inf(x.neg # y.neg)
    ELSE Round(x.neg # y.neg, x.mag * y.mag, UnitMag)

\* x / y
FDiv(x, y) ==
    IF IsNaN(x) \/ IsNaN(y) THEN NaN
    ELSE IF (IsInf(x) /\ IsInf(y)) \/ (IsZero(x) /\ IsZero(y)) THEN NaN
    ELSE IF IsInf(x) \/ IsZero(y) THEN Inf(x.neg # y.neg)
    ELSE IF IsInf(y) THEN Fin(x.neg # y.neg, 0)
    ELSE Round(x.neg # y.neg, x.mag * UnitMag, y.mag)

\* x % y: the remainder of the truncated division, with the sign of x; exact.
FRem(x, y) ==
    IF IsNaN(x) \/ IsNaN(y) \/ IsInf(x) \/ IsZero(y) THEN NaN
    ELSE IF IsInf(y) THEN x
    ELSE Fin(x.neg, x.mag % y.mag)

\* x == y, x < y, x <= y, x > y of f32 (all false when an operand is NaN).
FEq(x, y) ==
    /\ ~IsNaN(x) /\ ~IsNaN(y)
    /\ \/ x = y
       \/ IsZero(x) /\ IsZero(y)
FLt(x, y) ==
    /\ ~IsNaN(x) /\ ~IsNaN(y) /\ ~FEq(x, y)
    /\ \/ IsInf(x) /\ x.neg
       \/ IsInf(y) /\ ~y.neg
       \/ IsFin(x) /\ IsFin(y) /\ SVal(x) < SVal(y)
FLe(x, y) == FLt(x, y) \/ FEq(x, y)
FGt(x, y) == FLt(y, x)

\* ------------------------------------------------- f32 methods of std

MinusOne == Lit(-1)
One == Lit(1)

\* f32::abs: clears the sign bit.
f32_abs(x) == IF IsNaN(x) THEN NaN ELSE [x EXCEPT !.neg = FALSE]

\* f32::recip: 1.0 / x.
f32_recip(x) == FDiv(One, x)

\* f32::min / f32::max: a NaN operand yields the other operand; operands that
\* compare equal (+0.0 and -0.0) may yield either one, so the result is a set
\* of outcomes.
f32_min(x, y) ==
    IF IsNaN(x) THEN {y}
    ELSE IF IsNaN(y) THEN {x}
    ELSE IF FLt(x, y) THEN {x}
    ELSE IF FLt(y, x) THEN {y}
    ELSE {x, y}
f32_max(x, y) ==
    IF IsNaN(x) THEN {y}
    ELSE IF IsNaN(y) THEN {x}
    ELSE IF FGt(x, y) THEN {x}
    ELSE IF FGt(y, x) THEN {y}
    ELSE {x, y}

\* f32::clamp asserts min <= max (false when either bound is NaN) ...
f32_clamp_panics(min, max) == ~FLe(min, max)
\* ... and then moves self up to min or down to max.
f32_clamp(x, min, max) ==
    IF FLt(x, min) THEN min
    ELSE IF FGt(x, max) THEN max
    ELSE x

\* f32::trunc: the integer part, rounded toward zero.
f32_trunc(x) ==
    IF ~IsFin(x) THEN x
    ELSE Fin(x.neg, (x.mag \div UnitMag) * UnitMag)

\* f32::rem_euclid: r = self % rhs; if r < 0.0 { r + rhs.abs() } else { r }.
f32_rem_euclid(x, rhs) ==
    LET r == FRem(x, rhs)
    IN  IF FLt(r, PZero) THEN FAdd(r, f32_abs(rhs)) ELSE r

\* f32::div_euclid: q = (self / rhs).trunc(); if self % rhs < 0.0
\* { if rhs > 0.0 { q - 1.0 } else { q + 1.0 } } else { q }.
f32_div_euclid(x, rhs) ==
    LET q == f32_trunc(FDiv(x, rhs))
    IN  IF FLt(FRem(x, rhs), PZero)
        THEN (IF FGt(rhs, PZero) THEN FSub(q, One) ELSE FAdd(q, One))
        ELSE q

\* f32::sqrt: the correctly rounded square root (ties to even); NaN below
\* zero, and sqrt(-0.0) = -0.0.
f32_sqrt(x) ==
    IF IsNaN(x) THEN NaN
    ELSE IF IsZero(x) THEN x
    ELSE IF x.neg THEN NaN
    ELSE IF IsInf(x) THEN x
    ELSE LET m == x.mag * UnitMag
             e == CHOOSE e \in 0..(EMax + 1) :
                      /\ e = EMax + 1 \/ m < Pow2(Precision + e) * Pow2(Precision + e)
                      /\ e = 0 \/ m >= Pow2(Precision + e - 1) * Pow2(Precision + e - 1)
             q == Pow2(e)
             k == CHOOSE k \in 0..Pow2(Precision) :
                      (k * q) * (k * q) <= m /\ ((k + 1) * q) * ((k + 1) * q) > m
             h == (2 * k + 1) * q
             up == 4 * m > h * h \/ (4 * m = h * h /\ k % 2 = 1)
         IN  Fin(FALSE, (IF up THEN k + 1 ELSE k) * q)

\* f32::partial_cmp: None when an operand is NaN.
f32_partial_cmp(x, y) ==
    IF IsNaN(x) \/ IsNaN(y) THEN "None"
    ELSE IF FLt(x, y) THEN "Some(Less)"
    ELSE IF FGt(x, y) THEN "Some(Greater)"
    ELSE "Some(Equal)"

\* Faulty variant: F32Ext::rsqrt without the reciprocal.
f32_rsqrt_no_recip(x) == f32_sqrt(x)

\* F32Ext::rsqrt: 1.0 / self.sqrt()
f32_rsqrt(x) == FDiv(One, f32_sqrt(x))

\* sin x and cos x in units of 1/1024, for x = q/4: the yaws 0, 0.5, 1, 2 and 3
\* are tabulated; for any other x the pair is only known to lie in [-1, 1].
sin_cos_1024(q) ==
    CASE q = 0 -> {<<0, 1024>>}
      [] q = 2 -> {<<491, 899>>}
      [] q = 4 -> {<<862, 553>>}
      [] q = 8 -> {<<931, -426>>}
      [] q = 12 -> {<<145, -1014>>}
      [] OTHER -> {<<256 * i, 256 * j>> : i, j \in -4..4}
\* The floats next to n/1024 on either side (the precision of sin and cos is
\* unspecified, so either may be returned).
Near(n) ==
    LET m == (IF n < 0 THEN -n ELSE n) * UnitMag
    IN  {Fin(n < 0, m \div 1024)} \cup (IF m % 1024 = 0 THEN {} ELSE {Fin(n < 0, (m \div 1024) + 1)})
\* f32::sin_cos: the pairs (sin x, cos x) the call can return; NaN for an
\* infinite or NaN x; sin is odd and cos is even.
f32_sin_cos(x) ==
    IF ~IsFin(x) THEN {<<NaN, NaN>>}
    ELSE {<<IF x.neg THEN FNegate(sn) ELSE sn, cs>> :
             sn \in UNION {Near(t[1]) : t \in sin_cos_1024((x.mag * 4) \div UnitMag)},
             cs \in UNION {Near(t[2]) : t \in sin_cos_1024((x.mag * 4) \div UnitMag)}}

\* ------------------------------------------------------ arrays [f32; N]

\* An array literal [e0, e1, ...]: a function on 0 .. N-1.
ArrayOf(seq) == [i \in 0..(Len(seq) - 1) |-> seq[i + 1]]

\* Indexing an array: out of range is a panic, reported by InRange.
InRange(arr, i) == i \in DOMAIN arr

\* ------------------------------------------------------------- outcomes

\* The outcome of a call: a returned value, or a panic.
Ok(v) == [kind |-> "ok", val |-> v]
Panic == [kind |-> "panic", val |-> "panic"]
\* The value ().
Unit == "()"

\* ---------------------------------------------------------- Vec3, Vec4

\* Vec3::new, Vec3::splat and the constants ZERO, X, Y, Z.
Vec3_new(x, y, z) == [x |-> x, y |-> y, z |-> z]
Vec3_splat(v) == Vec3_new(v, v, v)
Vec3_ZERO == Vec3_splat(PZero)
Vec3_X == Vec3_new(Lit(1), PZero, PZero)
Vec3_Y == Vec3_new(PZero, Lit(1), PZero)
Vec3_Z == Vec3_new(PZero, PZero, Lit(1))

\* Vec4::new, Vec4::splat and the constant ZERO.
Vec4_new(x, y, z, w) == [x |-> x, y |-> y, z |-> z, w |-> w]
Vec4_splat(v) == Vec4_new(v, v, v, v)
Vec4_ZERO == Vec4_splat(PZero)

\* The associated constants of Vec3 and of Vec4, by name.
Vec3_consts ==
    [ZERO |-> Vec3_splat(PZero),
     X |-> Vec3_new(Lit(1), PZero, PZero),
     Y |-> Vec3_new(PZero, Lit(1), PZero),
     Z |-> Vec3_new(PZero, PZero, Lit(1)),
     NEG_X |-> Vec3_new(Lit(-1), PZero, PZero),
     NEG_Y |-> Vec3_new(PZero, Lit(-1), PZero),
     NEG_Z |-> Vec3_new(PZero, PZero, Lit(-1))]
\* Faulty variant: the constants of Vec4 with NEG_W a copy of NEG_Z.
Vec4_consts_neg_w ==
    [ZERO |-> Vec4_splat(PZero),
     X |-> Vec4_new(Lit(1), PZero, PZero, PZero),
     Y |-> Vec4_new(PZero, Lit(1), PZero, PZero),
     Z |-> Vec4_new(PZero, PZero, Lit(1), PZero),
     W |-> Vec4_new(PZero, PZero, PZero, Lit(1)),
     NEG_X |-> Vec4_new(Lit(-1), PZero, PZero, PZero),
     NEG_Y |-> Vec4_new(PZero, Lit(-1), PZero, PZero),
     NEG_Z |-> Vec4_new(PZero, PZero, Lit(-1), PZero),
     NEG_W |-> Vec4_new(PZero, PZero, Lit(-1), PZero)]

Vec4_consts ==
    [ZERO |-> Vec4_splat(PZero),
     X |-> Vec4_new(Lit(1), PZero, PZero, PZero),
     Y |-> Vec4_new(PZero, Lit(1), PZero, PZero),
     Z |-> Vec4_new(PZero, PZero, Lit(1), PZero),
     W |-> Vec4_new(PZero, PZero, PZero, Lit(1)),
     NEG_X |-> Vec4_new(Lit(-1), PZero, PZero, PZero),
     NEG_Y |-> Vec4_new(PZero, Lit(-1), PZero, PZero),
     NEG_Z |-> Vec4_new(PZero, PZero, Lit(-1), PZero),
     NEG_W |-> Vec4_new(PZero, PZero, PZero, Lit(-1))]

\* Vec2::new, Vec2::splat and the associated constants of Vec2.
Vec2_new(x, y) == [x |-> x, y |-> y]
Vec2_splat(v) == Vec2_new(v, v)
Vec2_consts ==
    [ZERO |-> Vec2_splat(PZero),
     X |-> Vec2_new(Lit(1), PZero),
     Y |-> Vec2_new(PZero, Lit(1)),
     NEG_X |-> Vec2_new(Lit(-1), PZero),
     NEG_Y |-> Vec2_new(PZero, Lit(-1))]

\* impl Add for Vec2 (impl_vector!(Vec2, 2)): from_fn(|i| a0[i] + a1[i]) over the
\* arrays of the operands.
Vec2_add(self, rhs) == Vec2_new(FAdd(self.x, rhs.x), FAdd(self.y, rhs.y))

\* #[derive(PartialEq)]: self == other compares the fields with the == of f32.
Vec3_eq(self, other) ==
    FEq(self.x, other.x) /\ FEq(self.y, other.y) /\ FEq(self.z, other.z)
Vec4_eq(self, other) ==
    FEq(self.x, other.x) /\ FEq(self.y, other.y) /\ FEq(self.z, other.z) /\ FEq(self.w, other.w)

\* From<[f32; 3]> / Into<[f32; 3]> / From<(f32, f32, f32)> / Into<(f32, f32, f32)>
Vec3_from_array(arr) == Vec3_new(arr[0], arr[1], arr[2])
Vec3_into_array(self) == ArrayOf(<<self.x, self.y, self.z>>)
Vec3_from_tuple(vals) == Vec3_new(vals[1], vals[2], vals[3])
Vec3_into_tuple(self) == <<self.x, self.y, self.z>>

\* Faulty variant: From<[f32; 4]> with elements 2 and 3 exchanged.
Vec4_from_array_wz(arr) == Vec4_new(arr[0], arr[1], arr[3], arr[2])

\* From<[f32; 4]> / Into<[f32; 4]> / From<(f32, f32, f32, f32)> / Into<...>
Vec4_from_array(arr) == Vec4_new(arr[0], arr[1], arr[2], arr[3])
Vec4_into_array(self) == ArrayOf(<<self.x, self.y, self.z, self.w>>)
Vec4_from_tuple(vals) == Vec4_new(vals[1], vals[2], vals[3], vals[4])
Vec4_into_tuple(self) == <<self.x, self.y, self.z, self.w>>

\* Index<usize>: the match on the index; the `_` arm panics.
Vec3_index(self, index) ==
    CASE index = 0 -> Ok(self.x)
      [] index = 1 -> Ok(self.y)
      [] index = 2 -> Ok(self.z)
      [] OTHER -> Panic
Vec4_index(self, index) ==
    CASE index = 0 -> Ok(self.x)
      [] index = 1 -> Ok(self.y)
      [] index = 2 -> Ok(self.z)
      [] index = 3 -> Ok(self.w)
      [] OTHER -> Panic

\* Faulty variant: IndexMut whose last arm takes every index from 2 on.
Vec3_index_mut_clamped(self, index, val) ==
    CASE index = 0 -> [self |-> [self EXCEPT !.x = val], ret |-> Ok(Unit)]
      [] index = 1 -> [self |-> [self EXCEPT !.y = val], ret |-> Ok(Unit)]
      [] OTHER -> [self |-> [self EXCEPT !.z = val], ret |-> Ok(Unit)]

\* IndexMut<usize> followed by a store through the returned reference
\* (v[index] = val): the vector after the call, and the outcome of the call.
Vec3_index_mut(self, index, val) ==
    CASE index = 0 -> [self |-> [self EXCEPT !.x = val], ret |-> Ok(Unit)]
      [] index = 1 -> [self |-> [self EXCEPT !.y = val], ret |-> Ok(Unit)]
      [] index = 2 -> [self |-> [self EXCEPT !.z = val], ret |-> Ok(Unit)]
      [] OTHER -> [self |-> self, ret |-> Panic]
Vec4_index_mut(self, index, val) ==
    CASE index = 0 -> [self |-> [self EXCEPT !.x = val], ret |-> Ok(Unit)]
      [] index = 1 -> [self |-> [self EXCEPT !.y = val], ret |-> Ok(Unit)]
      [] index = 2 -> [self |-> [self EXCEPT !.z = val], ret |-> Ok(Unit)]
      [] index = 3 -> [self |-> [self EXCEPT !.w = val], ret |-> Ok(Unit)]
      [] OTHER -> [self |-> self, ret |-> Panic]

\* Faulty variant: AsRef<[f32; 4]> with z and w exchanged.
Vec4_as_ref_wz(self) == ArrayOf(<<self.x, self.y, self.w, self.z>>)

\* AsRef<[f32; 4]> for Vec4: the four fields of the #[repr(C)] struct, read as
\* an array.
Vec4_as_ref(self) == ArrayOf(<<self.x, self.y, self.z, self.w>>)

\* AsMut<[f32; 4]> for Vec4 followed by a store (v.as_mut()[index] = val):
\* the vector after the call, and the outcome (the array index is checked).
Vec4_as_mut(self, index, val) ==
    IF InRange(Vec4_as_ref(self), index)
    THEN [self |-> Vec4_from_array([Vec4_as_ref(self) EXCEPT ![index] = val]), ret |-> Ok(Unit)]
    ELSE [self |-> self, ret |-> Panic]

\* ------------------------------------------------------------ operators

\* The operator traits Add, Sub, Mul, Div, Rem (and their ...Assign forms).
Ops == {"add", "sub", "mul", "div", "rem"}

\* The f32 operator that the impls of trait o apply to the components:
\* +, -, *, /, % (and +=, -=, *=, /=, %= on a field).
f32_op(o, x, y) ==
    CASE o = "add" -> FAdd(x, y)
      [] o = "sub" -> FSub(x, y)
      [] o = "mul" -> FMul(x, y)
      [] o = "div" -> FDiv(x, y)
      [] o = "rem" -> FRem(x, y)

\* impl Add<Vec3> for Vec3, and likewise Sub, Mul, Div, Rem: self o rhs
Vec3_op_Vec3(o, self, rhs) ==
    Vec3_new(f32_op(o, self.x, rhs.x), f32_op(o, self.y, rhs.y), f32_op(o, self.z, rhs.z))
\* impl Add<f32> for Vec3, and likewise Sub, Mul, Div, Rem: self o rhs
Vec3_op_f32(o, self, rhs) ==
    Vec3_new(f32_op(o, self.x, rhs), f32_op(o, self.y, rhs), f32_op(o, self.z, rhs))

\* Faulty variant: f32 o Vec3 computed as Vec3 o f32.
f32_op_Vec3_swapped(o, self, rhs) ==
    Vec3_new(f32_op(o, rhs.x, self), f32_op(o, rhs.y, self), f32_op(o, rhs.z, self))

\* impl Add<Vec3> for f32, and likewise Sub, Mul, Div, Rem: self o rhs
f32_op_Vec3(o, self, rhs) ==
    Vec3_new(f32_op(o, self, rhs.x), f32_op(o, self, rhs.y), f32_op(o, self, rhs.z))
\* impl AddAssign<Vec3> for Vec3, and likewise SubAssign, MulAssign, DivAssign,
\* RemAssign: *self after self o= rhs.
Vec3_op_assign_Vec3(o, self, rhs) ==
    [self EXCEPT !.x = f32_op(o, self.x, rhs.x), !.y = f32_op(o, self.y, rhs.y),
                 !.z = f32_op(o, self.z, rhs.z)]
\* impl AddAssign<f32> for Vec3, and likewise the other four: *self after
\* self o= rhs.
Vec3_op_assign_f32(o, self, rhs) ==
    [self EXCEPT !.x = f32_op(o, self.x, rhs), !.y = f32_op(o, self.y, rhs),
                 !.z = f32_op(o, self.z, rhs)]
\* Faulty variant: Neg for Vec3 that multiplies by 1.0.
Vec3_neg_by_one(self) == Vec3_op_f32("mul", self, One)

\* impl Neg for Vec3: self * -1.0
Vec3_neg(self) == Vec3_op_f32("mul", self, MinusOne)

\* Faulty variant: Vec4 o Vec4 with rhs.z in the place of rhs.w.
Vec4_op_Vec4_wz(o, self, rhs) ==
    Vec4_new(f32_op(o, self.x, rhs.x), f32_op(o, self.y, rhs.y), f32_op(o, self.z, rhs.z), f32_op(o, self.w, rhs.z))

\* impl Add<Vec4> for Vec4, and likewise Sub, Mul, Div, Rem: self o rhs
Vec4_op_Vec4(o, self, rhs) ==
    Vec4_new(f32_op(o, self.x, rhs.x), f32_op(o, self.y, rhs.y), f32_op(o, self.z, rhs.z), f32_op(o, self.w, rhs.w))
\* impl Add<f32> for Vec4, and likewise Sub, Mul, Div, Rem: self o rhs
Vec4_op_f32(o, self, rhs) ==
    Vec4_new(f32_op(o, self.x, rhs), f32_op(o, self.y, rhs), f32_op(o, self.z, rhs), f32_op(o, self.w, rhs))
\* impl Add<Vec4> for f32, and likewise Sub, Mul, Div, Rem: self o rhs
f32_op_Vec4(o, self, rhs) ==
    Vec4_new(f32_op(o, self, rhs.x), f32_op(o, self, rhs.y), f32_op(o, self, rhs.z), f32_op(o, self, rhs.w))
\* impl AddAssign<Vec4> for Vec4, and likewise SubAssign, MulAssign, DivAssign,
\* RemAssign: *self after self o= rhs. RemAssign<Vec4> assigns x, y and z only.
Vec4_op_assign_Vec4(o, self, rhs) ==
    IF o = "rem"
    THEN [self EXCEPT !.x = FRem(self.x, rhs.x), !.y = FRem(self.y, rhs.y), !.z = FRem(self.z, rhs.z)]
    ELSE [self EXCEPT !.x = f32_op(o, self.x, rhs.x), !.y = f32_op(o, self.y, rhs.y),
                      !.z = f32_op(o, self.z, rhs.z), !.w = f32_op(o, self.w, rhs.w)]
\* impl AddAssign<f32> for Vec4, and likewise the other four: *self after
\* self o= rhs.
Vec4_op_assign_f32(o, self, rhs) ==
    [self EXCEPT !.x = f32_op(o, self.x, rhs), !.y = f32_op(o, self.y, rhs),
                 !.z = f32_op(o, self.z, rhs), !.w = f32_op(o, self.w, rhs)]
\* impl Neg for Vec4: self * -1.0
Vec4_neg(self) == Vec4_op_f32("mul", self, MinusOne)

\* ------------------------------------------------ operators on references

\* *p: the value a reference p refers to; an operand passed by value is itself.
Deref(p) == IF "deref" \in DOMAIN p THEN p.deref ELSE p

\* Faulty variant: the reference forms of Vec3 o Vec3 with the operands exchanged.
Vec3_ref_op_exchanged(f, o, self, rhs) ==
    CASE f = "vec_vec" -> Vec3_op_Vec3(o, Deref(rhs), Deref(self))
      [] f = "vec_f32" -> Vec3_op_f32(o, Deref(self), Deref(rhs))
      [] f = "f32_vec" -> f32_op_Vec3(o, Deref(self), Deref(rhs))
      [] f = "assign_vec" -> Vec3_op_assign_Vec3(o, self, Deref(rhs))
      [] f = "assign_f32" -> Vec3_op_assign_f32(o, self, Deref(rhs))

\* The impls of the operators of Vec3 with a reference operand (Add<&Vec3> for
\* Vec3, Add<Vec3> for &Vec3, Add<&Vec3> for &Vec3, Add<&f32> for Vec3, ...,
\* AddAssign<&Vec3> for Vec3, AddAssign<&f32> for Vec3, and likewise Sub, Mul,
\* Div, Rem): the value form of the operator on the dereferenced operands.
Vec3_ref_op(f, o, self, rhs) ==
    CASE f = "vec_vec" -> Vec3_op_Vec3(o, Deref(self), Deref(rhs))
      [] f = "vec_f32" -> Vec3_op_f32(o, Deref(self), Deref(rhs))
      [] f = "f32_vec" -> f32_op_Vec3(o, Deref(self), Deref(rhs))
      [] f = "assign_vec" -> Vec3_op_assign_Vec3(o, self, Deref(rhs))
      [] f = "assign_f32" -> Vec3_op_assign_f32(o, self, Deref(rhs))

\* The same impls of Vec4.
Vec4_ref_op(f, o, self, rhs) ==
    CASE f = "vec_vec" -> Vec4_op_Vec4(o, Deref(self), Deref(rhs))
      [] f = "vec_f32" -> Vec4_op_f32(o, Deref(self), Deref(rhs))
      [] f = "f32_vec" -> f32_op_Vec4(o, Deref(self), Deref(rhs))
      [] f = "assign_vec" -> Vec4_op_assign_Vec4(o, self, Deref(rhs))
      [] f = "assign_f32" -> Vec4_op_assign_f32(o, self, Deref(rhs))

\* ------------------------------------------------- Vec3: inherent methods

\* Vec3::sum
Vec3_sum(self) == FAdd(FAdd(self.x, self.y), self.z)

\* Vec3::dot
Vec3_dot(self, rhs) == Vec3_sum(Vec3_op_Vec3("mul", self, rhs))

\* Faulty variant: Vec3::cross with rhs.z for self.z in the first component.
Vec3_cross_typo(self, rhs) ==
    Vec3_new(FSub(FMul(self.y, rhs.z), FMul(rhs.y, rhs.z)),
             FSub(FMul(self.z, rhs.x), FMul(rhs.z, self.x)),
             FSub(FMul(self.x, rhs.y), FMul(rhs.x, self.y)))
\* Faulty variant: Vec3::cross with the operands of the second component exchanged.
Vec3_cross_left_handed(self, rhs) ==
    Vec3_new(FSub(FMul(self.y, rhs.z), FMul(rhs.y, self.z)),
             FSub(FMul(self.x, rhs.z), FMul(rhs.x, self.z)),
             FSub(FMul(self.x, rhs.y), FMul(rhs.x, self.y)))

\* Vec3::cross
Vec3_cross(self, rhs) ==
    Vec3_new(FSub(FMul(self.y, rhs.z), FMul(rhs.y, self.z)),
             FSub(FMul(self.z, rhs.x), FMul(rhs.z, self.x)),
             FSub(FMul(self.x, rhs.y), FMul(rhs.x, self.y)))

\* Vec3::length_2: self.dot(self)
Vec3_length_2(self) == Vec3_dot(self, self)

\* Faulty variant: Vec3::length without the square root.
Vec3_length_no_root(self) == Vec3_dot(self, self)

\* Vec3::length: self.dot(self).sqrt()
Vec3_length(self) == f32_sqrt(Vec3_dot(self, self))

\* Vec3::lerp: self * (1.0 - t) + rhs * t
Vec3_lerp(self, rhs, t) ==
    Vec3_op_Vec3("add", Vec3_op_f32("mul", self, FSub(One, t)), Vec3_op_f32("mul", rhs, t))

\* Faulty variant: Vec3::midpoint that halves rhs only.
Vec3_midpoint_half_rhs(self, rhs) == Vec3_op_Vec3("add", self, Vec3_op_f32("mul", rhs, Half))

\* Vec3::midpoint: (self + rhs) * 0.5
Vec3_midpoint(self, rhs) == Vec3_op_f32("mul", Vec3_op_Vec3("add", self, rhs), Half)

\* Faulty variant: Vec3::reflect that removes the normal part once (a projection).
Vec3_reflect_once(self, normal) ==
    Vec3_op_Vec3("sub", self, Vec3_op_f32("mul", normal, Vec3_dot(self, normal)))

\* Vec3::reflect: self - 2.0 * normal * self.dot(normal)
Vec3_reflect(self, normal) ==
    Vec3_op_Vec3("sub", self,
                 Vec3_op_f32("mul", f32_op_Vec3("mul", Lit(2), normal), Vec3_dot(self, normal)))

\* Faulty variant: Vec3::refract that takes the fallback at cos_a2_2 == 0.0 too.
Vec3_refract_strict(self, normal, r) ==
    LET cos_a1 == FNegate(Vec3_dot(normal, self))
        cos_a2_2 == FSub(One, FMul(FMul(r, r), FSub(One, FMul(cos_a1, cos_a1))))
    IN  IF FLt(PZero, cos_a2_2)
        THEN Vec3_op_Vec3("add", f32_op_Vec3("mul", r, self),
                          f32_op_Vec3("mul", FSub(FMul(r, cos_a1), f32_sqrt(cos_a2_2)), normal))
        ELSE Vec3_ZERO

\* Vec3::refract: the fallback Vec3::ZERO is taken when cos_a2_2 >= 0.0 is false.
Vec3_refract(self, normal, r) ==
    LET cos_a1 == FNegate(Vec3_dot(normal, self))
        cos_a2_2 == FSub(One, FMul(FMul(r, r), FSub(One, FMul(cos_a1, cos_a1))))
    IN  IF FLe(PZero, cos_a2_2)
        THEN Vec3_op_Vec3("add", f32_op_Vec3("mul", r, self),
                          f32_op_Vec3("mul", FSub(FMul(r, cos_a1), f32_sqrt(cos_a2_2)), normal))
        ELSE Vec3_ZERO

\* Vec3::forward_from_yaw: (sin_yaw, 0.0, cos_yaw)
Vec3_forward_from_yaw(yaw) == {Vec3_new(sc[1], PZero, sc[2]) : sc \in f32_sin_cos(yaw)}

\* Vec3::right_from_yaw: (cos_yaw, 0.0, -sin_yaw)
Vec3_right_from_yaw(yaw) == {Vec3_new(sc[2], PZero, FNegate(sc[1])) : sc \in f32_sin_cos(yaw)}

\* Faulty variant: forward_and_right_from_yaw whose right vector is (cos, 0, sin).
Vec3_forward_and_right_same_sign(yaw) ==
    {<<Vec3_new(sc[1], PZero, sc[2]), Vec3_new(sc[2], PZero, sc[1])>> : sc \in f32_sin_cos(yaw)}

\* Vec3::forward_and_right_from_yaw: (forward, right) from one sin_cos
Vec3_forward_and_right_from_yaw(yaw) ==
    {<<Vec3_new(sc[1], PZero, sc[2]), Vec3_new(sc[2], PZero, FNegate(sc[1]))>> :
        sc \in f32_sin_cos(yaw)}

\* Vec3::to_world: right * self.x + up * self.y + forward * self.z
Vec3_to_world(self, right, up, forward) ==
    Vec3_op_Vec3("add",
        Vec3_op_Vec3("add", Vec3_op_f32("mul", right, self.x), Vec3_op_f32("mul", up, self.y)),
        Vec3_op_f32("mul", forward, self.z))

\* Vec3::min / Vec3::max: the f32 min / max of each pair of components (every
\* vector the call can return: f32::min and f32::max may return either of two
\* zeros of different sign).
Vec3_min(self, rhs) ==
    {Vec3_new(x, y, z) : x \in f32_min(self.x, rhs.x), y \in f32_min(self.y, rhs.y),
                         z \in f32_min(self.z, rhs.z)}
Vec3_max(self, rhs) ==
    {Vec3_new(x, y, z) : x \in f32_max(self.x, rhs.x), y \in f32_max(self.y, rhs.y),
                         z \in f32_max(self.z, rhs.z)}

\* Faulty variant: Vec3::clamp as self.max(min).min(max).
Vec3_clamp_max_first(self, min, max) ==
    UNION {Vec3_min(lower, max) : lower \in Vec3_max(self, min)}

\* Vec3::clamp: self.min(max).max(min)
Vec3_clamp(self, min, max) ==
    UNION {Vec3_max(upper, min) : upper \in Vec3_min(self, max)}

\* Vec3::length_recip: self.dot(self).rsqrt()
Vec3_length_recip(self) == f32_rsqrt(Vec3_dot(self, self))

\* Faulty variant: Vec3::normalize that multiplies by the length.
Vec3_normalize_by_length(self) == Vec3_op_f32("mul", self, Vec3_length(self))

\* Vec3::normalize: self * self.length_recip()
Vec3_normalize(self) == Vec3_op_f32("mul", self, Vec3_length_recip(self))

\* Vec3::normalize_and_length: (self / length, length) with length = self.length()
Vec3_normalize_and_length(self) ==
    LET length == Vec3_length(self)
    IN  <<Vec3_op_f32("div", self, length), length>>

\* Vec3::distance: (self - rhs).length()
Vec3_distance(self, rhs) == Vec3_length(Vec3_op_Vec3("sub", self, rhs))

\* Vec3::distance_recip: (self - rhs).length_recip()
Vec3_distance_recip(self, rhs) == Vec3_length_recip(Vec3_op_Vec3("sub", self, rhs))

\* Vec3::distance_2: (self - rhs).length_2()
Vec3_distance_2(self, rhs) == Vec3_length_2(Vec3_op_Vec3("sub", self, rhs))

\* ------------------------------------------------------------- VecExt<N>

\* The types with an `impl VecExt<N> for T {}`, which takes every default
\* method: Vec4, and Vec3, on which the harness calls the trait's methods.
impl_VecExt_Vec4 == "Vec4"
impl_VecExt_Vec3 == "Vec3"
VecExt_types == {impl_VecExt_Vec3, impl_VecExt_Vec4}

\* Their N, and their Into<[f32; N]> / From<[f32; N]>.
N_of(ty) == IF ty = "Vec3" THEN 3 ELSE 4
Into_array(ty, self) ==
    IF ty = "Vec3" THEN Vec3_into_array(self) ELSE Vec4_into_array(self)
From_array(ty, arr) ==
    IF ty = "Vec3" THEN Vec3_from_array(arr) ELSE Vec4_from_array(arr)

\* VecExt::to_array
VecExt_to_array(ty, self) == Into_array(ty, self)

\* array::from_fn(|i| ...) for [f32; n], where the closure's result at index i
\* is any member of C[i]: the set of arrays it can build.
RECURSIVE from_fn_seqs(_, _)
from_fn_seqs(n, C) ==
    IF n = 0 THEN {<<>>}
    ELSE {Append(p, e) : p \in from_fn_seqs(n - 1, C), e \in C[n - 1]}
from_fn(n, C) == {ArrayOf(q) : q \in from_fn_seqs(n, C)}

\* The outcomes of Self::from(array::from_fn(|i| ...)).
From_from_fn(ty, C) == {Ok(From_array(ty, arr)) : arr \in from_fn(N_of(ty), C)}

\* Faulty variant: VecExt::min reading element 0 of the array in every position.
VecExt_min_first(ty, self, v) ==
    LET a == VecExt_to_array(ty, self)
    IN  From_from_fn(ty, [i \in 0..(N_of(ty) - 1) |-> f32_min(a[0], v)])

\* VecExt::min / min_vec / max / max_vec
VecExt_min(ty, self, v) ==
    LET a == VecExt_to_array(ty, self)
    IN  From_from_fn(ty, [i \in 0..(N_of(ty) - 1) |-> f32_min(a[i], v)])
VecExt_min_vec(ty, self, rhs) ==
    LET a == VecExt_to_array(ty, self)
        b == VecExt_to_array(ty, rhs)
    IN  From_from_fn(ty, [i \in 0..(N_of(ty) - 1) |-> f32_min(a[i], b[i])])
VecExt_max(ty, self, v) ==
    LET a == VecExt_to_array(ty, self)
    IN  From_from_fn(ty, [i \in 0..(N_of(ty) - 1) |-> f32_max(a[i], v)])
VecExt_max_vec(ty, self, rhs) ==
    LET a == VecExt_to_array(ty, self)
        b == VecExt_to_array(ty, rhs)
    IN  From_from_fn(ty, [i \in 0..(N_of(ty) - 1) |-> f32_max(a[i], b[i])])

\* <f32 as Sum>::sum folds a + b from its neutral element, which is 0.0 or
\* -0.0 depending on the toolchain.
RECURSIVE iter_fold_add(_, _, _)
iter_fold_add(arr, n, init) ==
    IF n = 0 THEN init ELSE FAdd(iter_fold_add(arr, n - 1, init), arr[n - 1])
SumNeutral == {PZero, NZero}

\* VecExt::sum
VecExt_sum(ty, self) ==
    {Ok(iter_fold_add(VecExt_to_array(ty, self), N_of(ty), init)) : init \in SumNeutral}

\* VecExt::abs
VecExt_abs(ty, self) ==
    LET a == VecExt_to_array(ty, self)
    IN  From_from_fn(ty, [i \in 0..(N_of(ty) - 1) |-> {f32_abs(a[i])}])

\* VecExt::clamp / clamp_vec
VecExt_clamp(ty, self, min, max) ==
    LET a == VecExt_to_array(ty, self)
    IN  IF f32_clamp_panics(min, max) THEN {Panic}
        ELSE From_from_fn(ty, [i \in 0..(N_of(ty) - 1) |-> {f32_clamp(a[i], min, max)}])

\* Faulty variant: VecExt::clamp_vec with the bounds of position 0 in every position.
VecExt_clamp_vec_first(ty, self, min_vec, max_vec) ==
    LET a == VecExt_to_array(ty, self)
        min_arr == VecExt_to_array(ty, min_vec)
        max_arr == VecExt_to_array(ty, max_vec)
    IN  IF f32_clamp_panics(min_arr[0], max_arr[0])
        THEN {Panic}
        ELSE From_from_fn(ty, [i \in 0..(N_of(ty) - 1) |->
                                  {f32_clamp(a[i], min_arr[0], max_arr[0])}])
VecExt_clamp_vec(ty, self, min_vec, max_vec) ==
    LET a == VecExt_to_array(ty, self)
        min_arr == VecExt_to_array(ty, min_vec)
        max_arr == VecExt_to_array(ty, max_vec)
    IN  IF \E i \in 0..(N_of(ty) - 1) : f32_clamp_panics(min_arr[i], max_arr[i])
        THEN {Panic}
        ELSE From_from_fn(ty, [i \in 0..(N_of(ty) - 1) |->
                                  {f32_clamp(a[i], min_arr[i], max_arr[i])}])

\* VecExt::recip
VecExt_recip(ty, self) ==
    LET a == VecExt_to_array(ty, self)
    IN  From_from_fn(ty, [i \in 0..(N_of(ty) - 1) |-> {f32_recip(a[i])}])

\* VecExt::rem_euclid / div_euclid: b is the three-element array [v, v, v],
\* indexed by every i below N.
VecExt_rem_euclid(ty, self, v) ==
    LET a == VecExt_to_array(ty, self)
        b == ArrayOf(<<v, v, v>>)
    IN  IF \E i \in 0..(N_of(ty) - 1) : ~InRange(b, i) THEN {Panic}
        ELSE From_from_fn(ty, [i \in 0..(N_of(ty) - 1) |-> {f32_rem_euclid(a[i], b[i])}])
VecExt_div_euclid(ty, self, v) ==
    LET a == VecExt_to_array(ty, self)
        b == ArrayOf(<<v, v, v>>)
    IN  IF \E i \in 0..(N_of(ty) - 1) : ~InRange(b, i) THEN {Panic}
        ELSE From_from_fn(ty, [i \in 0..(N_of(ty) - 1) |-> {f32_div_euclid(a[i], b[i])}])

\* VecExt::rem_euclid_vec / div_euclid_vec
VecExt_rem_euclid_vec(ty, self, rhs) ==
    LET a == VecExt_to_array(ty, self)
        b == VecExt_to_array(ty, rhs)
    IN  From_from_fn(ty, [i \in 0..(N_of(ty) - 1) |-> {f32_rem_euclid(a[i], b[i])}])
VecExt_div_euclid_vec(ty, self, rhs) ==
    LET a == VecExt_to_array(ty, self)
        b == VecExt_to_array(ty, rhs)
    IN  From_from_fn(ty, [i \in 0..(N_of(ty) - 1) |-> {f32_div_euclid(a[i], b[i])}])

\* The operators the bounds of VecExt give to Self: Self o Self and Self o f32.
Self_op_Self(ty, o, self, rhs) ==
    IF ty = "Vec3" THEN Vec3_op_Vec3(o, self, rhs) ELSE Vec4_op_Vec4(o, self, rhs)
Self_op_f32(ty, o, self, rhs) ==
    IF ty = "Vec3" THEN Vec3_op_f32(o, self, rhs) ELSE Vec4_op_f32(o, self, rhs)

\* Faulty variant: VecExt::dot that multiplies self by itself.
VecExt_dot_self(ty, self, rhs) == VecExt_sum(ty, Self_op_Self(ty, "mul", self, self))

\* VecExt::dot: (self * rhs).sum()
VecExt_dot(ty, self, rhs) == VecExt_sum(ty, Self_op_Self(ty, "mul", self, rhs))

\* VecExt::length_2: self.dot(self)
VecExt_length_2(ty, self) == VecExt_dot(ty, self, self)

\* VecExt::length: self.length_2().sqrt()
VecExt_length(ty, self) == {Ok(f32_sqrt(r.val)) : r \in VecExt_length_2(ty, self)}

\* Faulty variant: VecExt::lerp with the weights of self and rhs exchanged.
VecExt_lerp_swapped(ty, self, rhs, t) ==
    {Ok(Self_op_Self(ty, "add", Self_op_f32(ty, "mul", self, t),
                     Self_op_f32(ty, "mul", rhs, FSub(One, t))))}

\* VecExt::lerp: self * (1.0 - t) + rhs * t
VecExt_lerp(ty, self, rhs, t) ==
    {Ok(Self_op_Self(ty, "add", Self_op_f32(ty, "mul", self, FSub(One, t)),
                     Self_op_f32(ty, "mul", rhs, t)))}

\* VecExt::midpoint: (self + rhs) * 0.5
VecExt_midpoint(ty, self, rhs) ==
    {Ok(Self_op_f32(ty, "mul", Self_op_Self(ty, "add", self, rhs), Half))}

\* VecExt::length_recip: self.length_2().rsqrt()
VecExt_length_recip(ty, self) == {Ok(f32_rsqrt(r.val)) : r \in VecExt_length_2(ty, self)}

\* VecExt::normalize: self * self.length_recip()
VecExt_normalize(ty, self) ==
    {Ok(Self_op_f32(ty, "mul", self, r.val)) : r \in VecExt_length_recip(ty, self)}

\* VecExt::normalize_and_length: (self / length, length) with length = self.length()
VecExt_normalize_and_length(ty, self) ==
    {Ok(<<Self_op_f32(ty, "div", self, length.val), length.val>>) :
        length \in VecExt_length(ty, self)}

\* VecExt::distance: (self - rhs).length()
VecExt_distance(ty, self, rhs) == VecExt_length(ty, Self_op_Self(ty, "sub", self, rhs))

\* VecExt::distance_recip: (self - rhs).length_recip()
VecExt_distance_recip(ty, self, rhs) ==
    VecExt_length_recip(ty, Self_op_Self(ty, "sub", self, rhs))

\* VecExt::distance_2: (self - rhs).length_2()
VecExt_distance_2(ty, self, rhs) == VecExt_length_2(ty, Self_op_Self(ty, "sub", self, rhs))

\* impl_vector!($vec, $d) for (Vec2, 2), (Vec3, 3) and (Vec4, 4): $d, and the
\* to_array and From<[f32; $d]> of $vec.
impl_vector_d(t) == IF t = "Vec2" THEN 2 ELSE IF t = "Vec3" THEN 3 ELSE 4
impl_vector_to_array(t, self) ==
    IF t = "Vec2" THEN ArrayOf(<<self.x, self.y>>) ELSE Into_array(t, self)
impl_vector_from(t, arr) ==
    IF t = "Vec2" THEN Vec2_new(arr[0], arr[1]) ELSE From_array(t, arr)

\* impl Add<f32> for $vec, and likewise Sub, Mul, Div, Rem: a1 = [val, val, val]
\* and array::from_fn(|i| a0[i] o a1[i]) over the $d positions.
impl_vector_op_f32(t, o, self, val) ==
    LET a0 == impl_vector_to_array(t, self)
        a1 == ArrayOf(<<val, val, val>>)
        d == impl_vector_d(t)
    IN  IF \E i \in 0..(d - 1) : ~InRange(a1, i) THEN Panic
        ELSE Ok(impl_vector_from(t, [i \in 0..(d - 1) |-> f32_op(o, a0[i], a1[i])]))

\* impl Add<$vec> for f32, and likewise Sub, Mul, Div, Rem:
\* a0 = [self, self, self] and array::from_fn(|i| a0[i] o a1[i]).
impl_vector_f32_op(t, o, self, rhs) ==
    LET a0 == ArrayOf(<<self, self, self>>)
        a1 == impl_vector_to_array(t, rhs)
        d == impl_vector_d(t)
    IN  IF \E i \in 0..(d - 1) : ~InRange(a0, i) THEN Panic
        ELSE Ok(impl_vector_from(t, [i \in 0..(d - 1) |-> f32_op(o, a0[i], a1[i])]))

\* impl AddAssign<f32> for $vec, and likewise the other four: the loop
\* `*v o= a1[i]` over self.as_mut(), in order, with a1 = [val, val, val];
\* *self when the call ends, and its outcome.
impl_vector_op_assign_f32(t, o, self, val) ==
    LET a0 == impl_vector_to_array(t, self)
        a1 == ArrayOf(<<val, val, val>>)
        d == impl_vector_d(t)
        stop == IF \E i \in 0..(d - 1) : ~InRange(a1, i)
                THEN CHOOSE i \in 0..(d - 1) :
                        ~InRange(a1, i) /\ \A j \in 0..(i - 1) : InRange(a1, j)
                ELSE d
    IN  [self |-> impl_vector_from(t, [i \in 0..(d - 1) |->
                      IF i < stop THEN f32_op(o, a0[i], a1[i]) ELSE a0[i]]),
         ret |-> IF stop < d THEN Panic ELSE Ok(Unit)]

\* The items an iterator over the array arr yields, in order.
Items(arr) == [k \in 1..Cardinality(DOMAIN arr) |-> arr[k - 1]]

\* VecExt::into_iter: self.to_array().into_iter()
VecExt_into_iter(ty, self) == Items(VecExt_to_array(ty, self))

\* VecExt::iter on Vec4: self.as_ref().iter()
VecExt_iter(self) == Items(Vec4_as_ref(self))

\* VecExt::iter_mut on Vec4, with val stored through item n (counted from 0)
\* of self.as_mut().iter_mut(): the vector after the store.
VecExt_iter_mut(self, n, val) == Vec4_as_mut(self, n, val).self

\* Faulty variant: PartialOrd for Vec3 that compares the x components.
Vec3_partial_cmp_by_x(self, other) == f32_partial_cmp(self.x, other.x)

\* impl PartialOrd for Vec3: self.length_2().partial_cmp(&other.length_2())
Vec3_partial_cmp(self, other) ==
    f32_partial_cmp(Vec3_length_2(self), Vec3_length_2(other))

\* impl PartialOrd for Vec4: the same, with the length_2 of VecExt.
Vec4_partial_cmp(self, other) ==
    {Ok(f32_partial_cmp(l.val, r.val)) :
        l \in VecExt_length_2("Vec4", self), r \in VecExt_length_2("Vec4", other)}

\* ======================================================== the state machine

\* Largest index tried by the indexing calls.
MaxIndex == 5

VARIABLES
    ty,     \* the type of the bindings: "Vec2", "Vec3" or "Vec4"
    a,      \* the binding a: the receiver of the call
    b,      \* the binding b: the vector operand of the call
    s,      \* the scalar operand of the call made
    arg,    \* the further operand of the call made (a bound, an index, an array),
            \* or the operands an operator took by reference
    pc,     \* "ready" before the call, "done" after it; "threads" while the
            \* threads of SpecThreads run
    op,     \* the operation called
    form,   \* the form of the call (operand kinds, trait or harness entry)
    ret,    \* the outcome of the call: Ok(value) or Panic
    a0,     \* the value of a before the call
    b0,     \* the value of b before the call
    threads \* per thread: its own binding v, the compound assignments it runs
            \* (prog), the one it is in (k) and the statements of it done (f)

vars == <<ty, a, b, s, arg, pc, op, form, ret, a0, b0, threads>>

Types == {"Vec2", "Vec3", "Vec4"}
NoArg == "none"
None == [kind |-> "none", val |-> "none"]

\* The scalars the calls are tried with.
InScalars == {PZero, Lit(1), Lit(-2), Half, Lit(3), Inf(FALSE), NaN}
\* The upper bounds clamp is tried with (the lower bound ranges over InScalars).
InBounds == {Lit(1), Lit(3), NaN}

\* The components the input vectors are built from: each window of N
\* consecutive values (cyclically) is an input vector.
InVals == <<Ulps(1), Lit(6), NZero, Ulps(-3), Inf(FALSE), Ulps(22), NaN, Lit(-2)>>
InVal(p) == InVals[((p - 1) % Len(InVals)) + 1]

InVec3 ==
    {Vec3_ZERO, Vec3_X, Vec3_Y, Vec3_Z}
    \cup {Vec3_new(Lit(1), Lit(2), Lit(3)), Vec3_new(Lit(3), Lit(4), PZero),
          Vec3_new(Lit(-1), Lit(5), Lit(2)), Vec3_new(Lit(1), Lit(5), Lit(-2)),
          Vec3_new(NZero, Lit(-1), NZero), Vec3_new(Ulps(5), Lit(-3), Lit(7)),
          Vec3_new(Lit(20), Lit(-20), Lit(1))}
    \cup {Vec3_new(InVal(p), InVal(p + 1), InVal(p + 2)) : p \in 1..Len(InVals)}
    \cup {Vec3_consts[c] : c \in DOMAIN Vec3_consts}
InVec2 ==
    {Vec2_new(Lit(1), Lit(2)), Vec2_new(Lit(-1), Lit(5)), Vec2_new(NZero, Lit(-1)),
     Vec2_new(Ulps(5), Lit(20)), Vec2_new(Inf(FALSE), NaN)}
    \cup {Vec2_consts[c] : c \in DOMAIN Vec2_consts}
InVec4 ==
    {Vec4_ZERO, Vec4_new(Lit(1), Lit(2), Lit(3), Lit(4)),
     Vec4_new(Lit(-1), Lit(5), Lit(2), Lit(-7)), Vec4_new(PZero, Lit(1), NZero, Lit(-1)),
     Vec4_new(Lit(3), Ulps(5), Lit(-2), Lit(3)),
     Vec4_new(Lit(20), Lit(-20), Lit(1), PZero),
     Vec4_new(Lit(1), Lit(-1), Lit(1), Lit(1))}
    \cup {Vec4_new(InVal(p), InVal(p + 1), InVal(p + 2), InVal(p + 3)) : p \in 1..Len(InVals)}
    \cup {Vec4_consts[c] : c \in DOMAIN Vec4_consts}
InVecs(t) == IF t = "Vec2" THEN InVec2 ELSE IF t = "Vec3" THEN InVec3 ELSE InVec4
\* The upper bounds clamp_vec is tried with (the lower bound ranges over InVecs).
InMaxVecs(t) ==
    IF t = "Vec3"
    THEN {Vec3_splat(Lit(3)), Vec3_ZERO, Vec3_new(Lit(1), Lit(2), Lit(3))}
    ELSE {Vec4_splat(Lit(3)), Vec4_ZERO, Vec4_new(Lit(1), Lit(2), Lit(3), Lit(4))}

\* #[derive(Default)]: every field 0.0.
Default(t) == IF t = "Vec2" THEN Vec2_new(PZero, PZero)
              ELSE IF t = "Vec3" THEN Vec3_new(PZero, PZero, PZero)
              ELSE Vec4_new(PZero, PZero, PZero, PZero)

\* The threads, and the state of the threads where none is spawned.
Threads == {"t1", "t2"}
NoThreads == [t \in Threads |-> [v |-> Default("Vec3"), prog |-> <<>>, k |-> 1, f |-> 0]]

Init ==
    /\ ty \in Types
    /\ a \in InVecs(ty)
    /\ b = Default(ty)
    /\ a0 = a
    /\ b0 = b
    /\ s = PZero
    /\ arg = NoArg
    /\ pc = "ready"
    /\ op = "none"
    /\ form = "none"
    /\ ret = None
    /\ threads = NoThreads

\* One call `o` in form `f` on the receiver a: its operands are recorded (the
\* scalar, the further operand, and the vector operand rhs that b is bound to),
\* the bindings take the values the call leaves in them, and ret its outcome.
Call(o, f, scalar, other, rhs, new_a, new_b, outcome) ==
    /\ pc' = "done"
    /\ op' = o
    /\ form' = f
    /\ s' = scalar
    /\ arg' = other
    /\ b0' = rhs
    /\ a' = new_a
    /\ b' = new_b
    /\ ret' = outcome
    /\ UNCHANGED <<ty, a0, threads>>

\* ------------------------------------------------------- operator calls

\* Faulty variant: a o b that also stores its result in a.
Op_Vec3_op_Vec3_in_place ==
    /\ pc = "ready" /\ ty = "Vec3"
    /\ \E o \in Ops : \E rhs \in InVecs(ty) :
          Call(o, "vec_vec", s, NoArg, rhs, Vec3_op_Vec3(o, a, rhs), rhs, Ok(Vec3_op_Vec3(o, a, rhs)))

\* a o b, a o s, s o a, a o= b, a o= s and -a on Vec3
Op_Vec3_op_Vec3 ==
    /\ pc = "ready" /\ ty = "Vec3"
    /\ \E o \in Ops : \E rhs \in InVecs(ty) :
          Call(o, "vec_vec", s, NoArg, rhs, a, rhs, Ok(Vec3_op_Vec3(o, a, rhs)))
Op_Vec3_op_f32 ==
    /\ pc = "ready" /\ ty = "Vec3"
    /\ \E o \in Ops : \E v \in InScalars :
          Call(o, "vec_f32", v, NoArg, b, a, b, Ok(Vec3_op_f32(o, a, v)))
Op_f32_op_Vec3 ==
    /\ pc = "ready" /\ ty = "Vec3"
    /\ \E o \in Ops : \E v \in InScalars :
          Call(o, "f32_vec", v, NoArg, b, a, b, Ok(f32_op_Vec3(o, v, a)))
Op_Vec3_op_assign_Vec3 ==
    /\ pc = "ready" /\ ty = "Vec3"
    /\ \E o \in Ops : \E rhs \in InVecs(ty) :
          Call(o, "assign_vec", s, NoArg, rhs, Vec3_op_assign_Vec3(o, a, rhs), rhs, Ok(Unit))
Op_Vec3_op_assign_f32 ==
    /\ pc = "ready" /\ ty = "Vec3"
    /\ \E o \in Ops : \E v \in InScalars :
          Call(o, "assign_f32", v, NoArg, b, Vec3_op_assign_f32(o, a, v), b, Ok(Unit))
Op_Vec3_neg ==
    /\ pc = "ready" /\ ty = "Vec3"
    /\ Call("neg", "neg", s, NoArg, b, a, b, Ok(Vec3_neg(a)))

\* a o b, a o s, s o a, a o= b, a o= s and -a on Vec4
Op_Vec4_op_Vec4 ==
    /\ pc = "ready" /\ ty = "Vec4"
    /\ \E o \in Ops : \E rhs \in InVecs(ty) :
          Call(o, "vec_vec", s, NoArg, rhs, a, rhs, Ok(Vec4_op_Vec4(o, a, rhs)))
Op_Vec4_op_f32 ==
    /\ pc = "ready" /\ ty = "Vec4"
    /\ \E o \in Ops : \E v \in InScalars :
          Call(o, "vec_f32", v, NoArg, b, a, b, Ok(Vec4_op_f32(o, a, v)))
Op_f32_op_Vec4 ==
    /\ pc = "ready" /\ ty = "Vec4"
    /\ \E o \in Ops : \E v \in InScalars :
          Call(o, "f32_vec", v, NoArg, b, a, b, Ok(f32_op_Vec4(o, v, a)))
Op_Vec4_op_assign_Vec4 ==
    /\ pc = "ready" /\ ty = "Vec4"
    /\ \E o \in Ops : \E rhs \in InVecs(ty) :
          Call(o, "assign_vec", s, NoArg, rhs, Vec4_op_assign_Vec4(o, a, rhs), rhs, Ok(Unit))
Op_Vec4_op_assign_f32 ==
    /\ pc = "ready" /\ ty = "Vec4"
    /\ \E o \in Ops : \E v \in InScalars :
          Call(o, "assign_f32", v, NoArg, b, Vec4_op_assign_f32(o, a, v), b, Ok(Unit))
Op_Vec4_neg ==
    /\ pc = "ready" /\ ty = "Vec4"
    /\ Call("neg", "neg", s, NoArg, b, a, b, Ok(Vec4_neg(a)))

\* The reference forms of the operators: &a o b, a o &b, &a o &b for a vector
\* or scalar on either side, and a o= &b.
Op_ref_forms ==
    /\ pc = "ready" /\ ty \in {"Vec3", "Vec4"}
    /\ \E o \in Ops : \E f \in {"vec_vec", "vec_f32", "f32_vec", "assign_vec", "assign_f32"} :
       \E refs \in (IF f \in {"assign_vec", "assign_f32"} THEN {"&rhs"}
                    ELSE {"&self", "&rhs", "&self &rhs"}) :
       \E rhs \in (IF f \in {"vec_vec", "assign_vec"} THEN InVecs(ty) ELSE {b}) :
       \E v \in (IF f \in {"vec_vec", "assign_vec"} THEN {s} ELSE InScalars) :
          LET left == IF f = "f32_vec" THEN v ELSE a
              right == CASE f \in {"vec_vec", "assign_vec"} -> rhs
                         [] f \in {"vec_f32", "assign_f32"} -> v
                         [] f = "f32_vec" -> a
              self == IF refs \in {"&self", "&self &rhs"} THEN [deref |-> left] ELSE left
              other == IF refs \in {"&rhs", "&self &rhs"} THEN [deref |-> right] ELSE right
              out == IF ty = "Vec3" THEN Vec3_ref_op(f, o, self, other)
                     ELSE Vec4_ref_op(f, o, self, other)
          IN  IF f \in {"assign_vec", "assign_f32"}
              THEN Call(o, f, v, refs, rhs, out, rhs, Ok(Unit))
              ELSE Call(o, f, v, refs, rhs, a, rhs, Ok(out))

\* ------------------------------------------------ VecExt method calls

\* a.<method>(...) resolved to the default method of VecExt<N>; on Vec3 this is
\* the body of the harness entry point vec3_<method>_trait.
Call_VecExt_sum ==
    /\ pc = "ready" /\ ty \in VecExt_types
    /\ \E r \in VecExt_sum(ty, a) :
          Call("sum", "trait", s, NoArg, b, a, b, r)
Call_VecExt_min ==
    /\ pc = "ready" /\ ty \in VecExt_types
    /\ \E v \in InScalars : \E r \in VecExt_min(ty, a, v) :
          Call("min", "trait", v, NoArg, b, a, b, r)
Call_VecExt_min_vec ==
    /\ pc = "ready" /\ ty \in VecExt_types
    /\ \E rhs \in InVecs(ty) : \E r \in VecExt_min_vec(ty, a, rhs) :
          Call("min_vec", "trait", s, NoArg, rhs, a, rhs, r)
Call_VecExt_max ==
    /\ pc = "ready" /\ ty \in VecExt_types
    /\ \E v \in InScalars : \E r \in VecExt_max(ty, a, v) :
          Call("max", "trait", v, NoArg, b, a, b, r)
Call_VecExt_max_vec ==
    /\ pc = "ready" /\ ty \in VecExt_types
    /\ \E rhs \in InVecs(ty) : \E r \in VecExt_max_vec(ty, a, rhs) :
          Call("max_vec", "trait", s, NoArg, rhs, a, rhs, r)
Call_VecExt_abs ==
    /\ pc = "ready" /\ ty \in VecExt_types
    /\ \E r \in VecExt_abs(ty, a) :
          Call("abs", "trait", s, NoArg, b, a, b, r)
Call_VecExt_clamp ==
    /\ pc = "ready" /\ ty \in VecExt_types
    /\ \E min \in InScalars : \E max \in InBounds : \E r \in VecExt_clamp(ty, a, min, max) :
          Call("clamp", "trait", min, max, b, a, b, r)
Call_VecExt_clamp_vec ==
    /\ pc = "ready" /\ ty \in VecExt_types
    /\ \E min_vec \in InVecs(ty) : \E max_vec \in InMaxVecs(ty) :
       \E r \in VecExt_clamp_vec(ty, a, min_vec, max_vec) :
          Call("clamp_vec", "trait", s, max_vec, min_vec, a, min_vec, r)
Call_VecExt_recip ==
    /\ pc = "ready" /\ ty \in VecExt_types
    /\ \E r \in VecExt_recip(ty, a) :
          Call("recip", "trait", s, NoArg, b, a, b, r)
Call_VecExt_rem_euclid ==
    /\ pc = "ready" /\ ty \in VecExt_types
    /\ \E v \in InScalars : \E r \in VecExt_rem_euclid(ty, a, v) :
          Call("rem_euclid", "trait", v, NoArg, b, a, b, r)
Call_VecExt_rem_euclid_vec ==
    /\ pc = "ready" /\ ty \in VecExt_types
    /\ \E rhs \in InVecs(ty) : \E r \in VecExt_rem_euclid_vec(ty, a, rhs) :
          Call("rem_euclid_vec", "trait", s, NoArg, rhs, a, rhs, r)
Call_VecExt_div_euclid ==
    /\ pc = "ready" /\ ty \in VecExt_types
    /\ \E v \in InScalars : \E r \in VecExt_div_euclid(ty, a, v) :
          Call("div_euclid", "trait", v, NoArg, b, a, b, r)
Call_VecExt_div_euclid_vec ==
    /\ pc = "ready" /\ ty \in VecExt_types
    /\ \E rhs \in InVecs(ty) : \E r \in VecExt_div_euclid_vec(ty, a, rhs) :
          Call("div_euclid_vec", "trait", s, NoArg, rhs, a, rhs, r)

\* VecExt::dot(a, b), VecExt::length_2(a), VecExt::length(a),
\* VecExt::lerp(a, b, t), VecExt::midpoint(a, b), VecExt::length_recip(a),
\* VecExt::normalize(a), VecExt::normalize_and_length(a),
\* VecExt::distance(a, b), VecExt::distance_recip(a, b), VecExt::distance_2(a, b)
Call_VecExt_method ==
    /\ pc = "ready" /\ ty \in VecExt_types
    /\ \/ \E rhs \in InVecs(ty) : \E r \in VecExt_dot(ty, a, rhs) :
             Call("dot", "trait", s, NoArg, rhs, a, rhs, r)
       \/ \E r \in VecExt_length_2(ty, a) :
             Call("length_2", "trait", s, NoArg, b, a, b, r)
       \/ \E r \in VecExt_length(ty, a) :
             Call("length", "trait", s, NoArg, b, a, b, r)
       \/ \E rhs \in InVecs(ty) : \E t \in InScalars : \E r \in VecExt_lerp(ty, a, rhs, t) :
             Call("lerp", "trait", t, NoArg, rhs, a, rhs, r)
       \/ \E rhs \in InVecs(ty) : \E r \in VecExt_midpoint(ty, a, rhs) :
             Call("midpoint", "trait", s, NoArg, rhs, a, rhs, r)
       \/ \E r \in VecExt_length_recip(ty, a) :
             Call("length_recip", "trait", s, NoArg, b, a, b, r)
       \/ \E r \in VecExt_normalize(ty, a) :
             Call("normalize", "trait", s, NoArg, b, a, b, r)
       \/ \E r \in VecExt_normalize_and_length(ty, a) :
             Call("normalize_and_length", "trait", s, NoArg, b, a, b, r)
       \/ \E rhs \in InVecs(ty) : \E r \in VecExt_distance(ty, a, rhs) :
             Call("distance", "trait", s, NoArg, rhs, a, rhs, r)
       \/ \E rhs \in InVecs(ty) : \E r \in VecExt_distance_recip(ty, a, rhs) :
             Call("distance_recip", "trait", s, NoArg, rhs, a, rhs, r)
       \/ \E rhs \in InVecs(ty) : \E r \in VecExt_distance_2(ty, a, rhs) :
             Call("distance_2", "trait", s, NoArg, rhs, a, rhs, r)

\* ----------------------------------------- harness: manual entry points

\* vec3_<op>_manual: the per-component formula on x, y and z.
Call_vec3_sum_manual ==
    /\ pc = "ready" /\ ty = "Vec3"
    /\ Call("sum", "manual", s, NoArg, b, a, b, Ok(FAdd(FAdd(a.x, a.y), a.z)))
Call_vec3_min_manual ==
    /\ pc = "ready" /\ ty = "Vec3"
    /\ \E v \in InScalars :
       \E x \in f32_min(a.x, v) : \E y \in f32_min(a.y, v) : \E z \in f32_min(a.z, v) :
          Call("min", "manual", v, NoArg, b, a, b, Ok(Vec3_new(x, y, z)))
Call_vec3_min_vec_manual ==
    /\ pc = "ready" /\ ty = "Vec3"
    /\ \E rhs \in InVecs(ty) :
       \E x \in f32_min(a.x, rhs.x) : \E y \in f32_min(a.y, rhs.y) : \E z \in f32_min(a.z, rhs.z) :
          Call("min_vec", "manual", s, NoArg, rhs, a, rhs, Ok(Vec3_new(x, y, z)))
Call_vec3_max_manual ==
    /\ pc = "ready" /\ ty = "Vec3"
    /\ \E v \in InScalars :
       \E x \in f32_max(a.x, v) : \E y \in f32_max(a.y, v) : \E z \in f32_max(a.z, v) :
          Call("max", "manual", v, NoArg, b, a, b, Ok(Vec3_new(x, y, z)))
Call_vec3_max_vec_manual ==
    /\ pc = "ready" /\ ty = "Vec3"
    /\ \E rhs \in InVecs(ty) :
       \E x \in f32_max(a.x, rhs.x) : \E y \in f32_max(a.y, rhs.y) : \E z \in f32_max(a.z, rhs.z) :
          Call("max_vec", "manual", s, NoArg, rhs, a, rhs, Ok(Vec3_new(x, y, z)))
Call_vec3_abs_manual ==
    /\ pc = "ready" /\ ty = "Vec3"
    /\ Call("abs", "manual", s, NoArg, b, a, b,
            Ok(Vec3_new(f32_abs(a.x), f32_abs(a.y), f32_abs(a.z))))
Call_vec3_clamp_manual ==
    /\ pc = "ready" /\ ty = "Vec3"
    /\ \E min \in InScalars : \E max \in InBounds :
          Call("clamp", "manual", min, max, b, a, b,
               IF f32_clamp_panics(min, max) THEN Panic
               ELSE Ok(Vec3_new(f32_clamp(a.x, min, max), f32_clamp(a.y, min, max),
                                f32_clamp(a.z, min, max))))
Call_vec3_clamp_vec_manual ==
    /\ pc = "ready" /\ ty = "Vec3"
    /\ \E min \in InVecs(ty) : \E max \in InMaxVecs(ty) :
          Call("clamp_vec", "manual", s, max, min, a, min,
               IF \/ f32_clamp_panics(min.x, max.x)
                  \/ f32_clamp_panics(min.y, max.y)
                  \/ f32_clamp_panics(min.z, max.z)
               THEN Panic
               ELSE Ok(Vec3_new(f32_clamp(a.x, min.x, max.x), f32_clamp(a.y, min.y, max.y),
                                f32_clamp(a.z, min.z, max.z))))
Call_vec3_recip_manual ==
    /\ pc = "ready" /\ ty = "Vec3"
    /\ Call("recip", "manual", s, NoArg, b, a, b,
            Ok(Vec3_new(f32_recip(a.x), f32_recip(a.y), f32_recip(a.z))))
Call_vec3_rem_euclid_manual ==
    /\ pc = "ready" /\ ty = "Vec3"
    /\ \E v \in InScalars :
          Call("rem_euclid", "manual", v, NoArg, b, a, b,
               Ok(Vec3_new(f32_rem_euclid(a.x, v), f32_rem_euclid(a.y, v), f32_rem_euclid(a.z, v))))
Call_vec3_rem_euclid_vec_manual ==
    /\ pc = "ready" /\ ty = "Vec3"
    /\ \E rhs \in InVecs(ty) :
          Call("rem_euclid_vec", "manual", s, NoArg, rhs, a, rhs,
               Ok(Vec3_new(f32_rem_euclid(a.x, rhs.x), f32_rem_euclid(a.y, rhs.y), f32_rem_euclid(a.z, rhs.z))))
Call_vec3_div_euclid_manual ==
    /\ pc = "ready" /\ ty = "Vec3"
    /\ \E v \in InScalars :
          Call("div_euclid", "manual", v, NoArg, b, a, b,
               Ok(Vec3_new(f32_div_euclid(a.x, v), f32_div_euclid(a.y, v), f32_div_euclid(a.z, v))))
Call_vec3_div_euclid_vec_manual ==
    /\ pc = "ready" /\ ty = "Vec3"
    /\ \E rhs \in InVecs(ty) :
          Call("div_euclid_vec", "manual", s, NoArg, rhs, a, rhs,
               Ok(Vec3_new(f32_div_euclid(a.x, rhs.x), f32_div_euclid(a.y, rhs.y), f32_div_euclid(a.z, rhs.z))))

\* ------------------------------------------------ Vec3 inherent methods

Call_Vec3_cross ==
    /\ pc = "ready" /\ ty = "Vec3"
    /\ \E rhs \in InVecs(ty) :
          Call("cross", "method", s, NoArg, rhs, a, rhs, Ok(Vec3_cross(a, rhs)))
Call_Vec3_dot ==
    /\ pc = "ready" /\ ty = "Vec3"
    /\ \E rhs \in InVecs(ty) :
          Call("dot", "method", s, NoArg, rhs, a, rhs, Ok(Vec3_dot(a, rhs)))

\* a.length_2(), a.length(), a.lerp(b, t), a.midpoint(b), a.reflect(b),
\* a.refract(b, r), a.length_recip(), a.normalize(), a.normalize_and_length(),
\* a.distance(b), a.distance_recip(b), a.distance_2(b), a.clamp(min, max),
\* Vec3::forward_from_yaw(yaw), Vec3::right_from_yaw(yaw),
\* Vec3::forward_and_right_from_yaw(yaw), a.to_world(right, up, forward)
Call_Vec3_method ==
    /\ pc = "ready" /\ ty = "Vec3"
    /\ \/ Call("length_2", "method", s, NoArg, b, a, b, Ok(Vec3_length_2(a)))
       \/ Call("length", "method", s, NoArg, b, a, b, Ok(Vec3_length(a)))
       \/ \E rhs \in InVecs(ty) : \E t \in InScalars :
             Call("lerp", "method", t, NoArg, rhs, a, rhs, Ok(Vec3_lerp(a, rhs, t)))
       \/ \E rhs \in InVecs(ty) :
             Call("midpoint", "method", s, NoArg, rhs, a, rhs, Ok(Vec3_midpoint(a, rhs)))
       \/ \E normal \in InVecs(ty) :
             Call("reflect", "method", s, NoArg, normal, a, normal, Ok(Vec3_reflect(a, normal)))
       \/ \E normal \in InVecs(ty) : \E r \in InScalars :
             Call("refract", "method", r, NoArg, normal, a, normal, Ok(Vec3_refract(a, normal, r)))
       \/ \E min \in InVecs(ty) : \E max \in InMaxVecs(ty) : \E r \in Vec3_clamp(a, min, max) :
             Call("clamp", "method", s, max, min, a, min, Ok(r))
       \/ Call("length_recip", "method", s, NoArg, b, a, b, Ok(Vec3_length_recip(a)))
       \/ \E yaw \in InScalars : \E r \in Vec3_forward_from_yaw(yaw) :
             Call("forward_from_yaw", "method", yaw, NoArg, b, a, b, Ok(r))
       \/ \E yaw \in InScalars : \E r \in Vec3_right_from_yaw(yaw) :
             Call("right_from_yaw", "method", yaw, NoArg, b, a, b, Ok(r))
       \/ \E yaw \in InScalars : \E r \in Vec3_forward_and_right_from_yaw(yaw) :
             Call("forward_and_right_from_yaw", "method", yaw, NoArg, b, a, b, Ok(r))
       \/ \E basis \in {<<Vec3_X, Vec3_Y, Vec3_Z>>, <<Vec3_Z, Vec3_Y, Vec3_X>>} :
             Call("to_world", "method", s, basis, b, a, b,
                  Ok(Vec3_to_world(a, basis[1], basis[2], basis[3])))
       \/ Call("normalize", "method", s, NoArg, b, a, b, Ok(Vec3_normalize(a)))
       \/ Call("normalize_and_length", "method", s, NoArg, b, a, b,
               Ok(Vec3_normalize_and_length(a)))
       \/ \E rhs \in InVecs(ty) :
             Call("distance", "method", s, NoArg, rhs, a, rhs, Ok(Vec3_distance(a, rhs)))
       \/ \E rhs \in InVecs(ty) :
             Call("distance_recip", "method", s, NoArg, rhs, a, rhs,
                  Ok(Vec3_distance_recip(a, rhs)))
       \/ \E rhs \in InVecs(ty) :
             Call("distance_2", "method", s, NoArg, rhs, a, rhs, Ok(Vec3_distance_2(a, rhs)))

\* ------------------------------------------- constants, splat, Vec2 + Vec2

\* T::ZERO, T::X, ..., T::NEG_W
Call_const ==
    /\ pc = "ready"
    /\ LET consts == CASE ty = "Vec2" -> Vec2_consts
                        [] ty = "Vec3" -> Vec3_consts
                        [] ty = "Vec4" -> Vec4_consts
       IN  \E c \in DOMAIN consts :
              Call(c, "const", s, NoArg, b, a, b, Ok(consts[c]))
\* T::splat(v)
Call_splat ==
    /\ pc = "ready"
    /\ \E v \in InScalars :
          Call("splat", "new", v, NoArg, b, a, b,
               Ok(CASE ty = "Vec2" -> Vec2_splat(v)
                    [] ty = "Vec3" -> Vec3_splat(v)
                    [] ty = "Vec4" -> Vec4_splat(v)))
\* a + b
Op_Vec2_add_Vec2 ==
    /\ pc = "ready" /\ ty = "Vec2"
    /\ \E rhs \in InVecs(ty) :
          Call("add", "vec_vec", s, NoArg, rhs, a, rhs, Ok(Vec2_add(a, rhs)))

\* The operators of impl_vector! with a scalar: a o v, v o a and a o= v
Op_impl_vector_f32 ==
    /\ pc = "ready"
    /\ \E o \in Ops : \E v \in InScalars :
          \/ Call(o, "macro_vec_f32", v, NoArg, b, a, b, impl_vector_op_f32(ty, o, a, v))
          \/ Call(o, "macro_f32_vec", v, NoArg, b, a, b, impl_vector_f32_op(ty, o, v, a))
          \/ LET r == impl_vector_op_assign_f32(ty, o, a, v)
             IN  Call(o, "macro_assign_f32", v, NoArg, b, r.self, b, r.ret)

\* a.as_ref(), a.into_iter(), a.iter(); a.as_mut()[i] = v;
\* *a.iter_mut().nth(i).unwrap() = v for an item that exists
Call_Vec4_views ==
    /\ pc = "ready" /\ ty = "Vec4"
    /\ \/ Call("as_ref", "view", s, NoArg, b, a, b, Ok(Vec4_as_ref(a)))
       \/ Call("into_iter", "view", s, NoArg, b, a, b, Ok(VecExt_into_iter(ty, a)))
       \/ Call("iter", "view", s, NoArg, b, a, b, Ok(VecExt_iter(a)))
       \/ \E i \in 0..MaxIndex : \E v \in InScalars :
             LET r == Vec4_as_mut(a, i, v)
             IN  Call("as_mut", "as_mut", v, i, b, r.self, b, r.ret)
       \/ \E i \in 0..(N_of(ty) - 1) : \E v \in InScalars :
             Call("iter_mut", "iter_mut", v, i, b, VecExt_iter_mut(a, i, v), b, Ok(Unit))

\* a.partial_cmp(&b)
Call_partial_cmp ==
    /\ pc = "ready"
    /\ \/ /\ ty = "Vec3"
          /\ \E other \in InVecs(ty) :
                Call("partial_cmp", "cmp", s, NoArg, other, a, other,
                     Ok(Vec3_partial_cmp(a, other)))
       \/ /\ ty = "Vec4"
          /\ \E other \in InVecs(ty) : \E r \in Vec4_partial_cmp(a, other) :
                Call("partial_cmp", "cmp", s, NoArg, other, a, other, r)

\* ------------------------------------------------ indexing, conversions

\* a[i]
Call_Vec3_index ==
    /\ pc = "ready" /\ ty = "Vec3"
    /\ \E i \in 0..MaxIndex :
          Call("index", "index", s, i, b, a, b, Vec3_index(a, i))
\* a[i] = v
Call_Vec3_index_mut ==
    /\ pc = "ready" /\ ty = "Vec3"
    /\ \E i \in 0..MaxIndex : \E v \in InScalars :
          LET r == Vec3_index_mut(a, i, v)
          IN  Call("index_mut", "index_mut", v, i, b, r.self, b, r.ret)
\* let arr: [f32; 3] = a.into()
Call_Vec3_into_array ==
    /\ pc = "ready" /\ ty = "Vec3"
    /\ Call("into_array", "convert", s, NoArg, b, a, b, Ok(Vec3_into_array(a)))
\* Vec3::from(arr), for the array arr of the components of a
Call_Vec3_from_array ==
    /\ pc = "ready" /\ ty = "Vec3"
    /\ LET arr == ArrayOf(<<a.x, a.y, a.z>>)
       IN  Call("from_array", "convert", s, arr, b, a, b, Ok(Vec3_from_array(arr)))
\* let t: (f32, f32, f32) = a.into()
Call_Vec3_into_tuple ==
    /\ pc = "ready" /\ ty = "Vec3"
    /\ Call("into_tuple", "convert", s, NoArg, b, a, b, Ok(Vec3_into_tuple(a)))
\* Vec3::from(t), for the tuple t of the components of a
Call_Vec3_from_tuple ==
    /\ pc = "ready" /\ ty = "Vec3"
    /\ LET t == <<a.x, a.y, a.z>>
       IN  Call("from_tuple", "convert", s, t, b, a, b, Ok(Vec3_from_tuple(t)))

\* a[i]
Call_Vec4_index ==
    /\ pc = "ready" /\ ty = "Vec4"
    /\ \E i \in 0..MaxIndex :
          Call("index", "index", s, i, b, a, b, Vec4_index(a, i))
\* a[i] = v
Call_Vec4_index_mut ==
    /\ pc = "ready" /\ ty = "Vec4"
    /\ \E i \in 0..MaxIndex : \E v \in InScalars :
          LET r == Vec4_index_mut(a, i, v)
          IN  Call("index_mut", "index_mut", v, i, b, r.self, b, r.ret)
\* let arr: [f32; 4] = a.into()
Call_Vec4_into_array ==
    /\ pc = "ready" /\ ty = "Vec4"
    /\ Call("into_array", "convert", s, NoArg, b, a, b, Ok(Vec4_into_array(a)))
\* Vec4::from(arr), for the array arr of the components of a
Call_Vec4_from_array ==
    /\ pc = "ready" /\ ty = "Vec4"
    /\ LET arr == ArrayOf(<<a.x, a.y, a.z, a.w>>)
       IN  Call("from_array", "convert", s, arr, b, a, b, Ok(Vec4_from_array(arr)))
\* let t: (f32, f32, f32, f32) = a.into()
Call_Vec4_into_tuple ==
    /\ pc = "ready" /\ ty = "Vec4"
    /\ Call("into_tuple", "convert", s, NoArg, b, a, b, Ok(Vec4_into_tuple(a)))
\* Vec4::from(t), for the tuple t of the components of a
Call_Vec4_from_tuple ==
    /\ pc = "ready" /\ ty = "Vec4"
    /\ LET t == <<a.x, a.y, a.z, a.w>>
       IN  Call("from_tuple", "convert", s, t, b, a, b, Ok(Vec4_from_tuple(t)))

Next ==
    \/ Op_Vec3_op_Vec3
    \/ Op_Vec3_op_f32
    \/ Op_f32_op_Vec3
    \/ Op_Vec3_op_assign_Vec3
    \/ Op_Vec3_op_assign_f32
    \/ Op_Vec3_neg
    \/ Op_Vec4_op_Vec4
    \/ Op_Vec4_op_f32
    \/ Op_f32_op_Vec4
    \/ Op_Vec4_op_assign_Vec4
    \/ Op_Vec4_op_assign_f32
    \/ Op_Vec4_neg
    \/ Op_ref_forms
    \/ Call_VecExt_sum
    \/ Call_VecExt_min
    \/ Call_VecExt_min_vec
    \/ Call_VecExt_max
    \/ Call_VecExt_max_vec
    \/ Call_VecExt_abs
    \/ Call_VecExt_clamp
    \/ Call_VecExt_clamp_vec
    \/ Call_VecExt_recip
    \/ Call_VecExt_rem_euclid
    \/ Call_VecExt_rem_euclid_vec
    \/ Call_VecExt_div_euclid
    \/ Call_VecExt_div_euclid_vec
    \/ Call_VecExt_method
    \/ Call_vec3_sum_manual
    \/ Call_vec3_min_manual
    \/ Call_vec3_min_vec_manual
    \/ Call_vec3_max_manual
    \/ Call_vec3_max_vec_manual
    \/ Call_vec3_abs_manual
    \/ Call_vec3_clamp_manual
    \/ Call_vec3_clamp_vec_manual
    \/ Call_vec3_recip_manual
    \/ Call_vec3_rem_euclid_manual
    \/ Call_vec3_rem_euclid_vec_manual
    \/ Call_vec3_div_euclid_manual
    \/ Call_vec3_div_euclid_vec_manual
    \/ Call_Vec3_cross
    \/ Call_Vec3_dot
    \/ Call_Vec3_method
    \/ Call_const
    \/ Call_splat
    \/ Op_Vec2_add_Vec2
    \/ Call_partial_cmp
    \/ Op_impl_vector_f32
    \/ Call_Vec4_views
    \/ Call_Vec3_index
    \/ Call_Vec3_index_mut
    \/ Call_Vec3_into_array
    \/ Call_Vec3_from_array
    \/ Call_Vec3_into_tuple
    \/ Call_Vec3_from_tuple
    \/ Call_Vec4_index
    \/ Call_Vec4_index_mut
    \/ Call_Vec4_into_array
    \/ Call_Vec4_from_array
    \/ Call_Vec4_into_tuple
    \/ Call_Vec4_from_tuple

Spec == Init /\ [][Next]_vars

\* ------------------------------------------------------------- threads

\* The compound assignments a thread runs at most.
MaxOps == 2

\* The compound assignments the threads' programs are made of: v += rhs,
\* v -= rhs and v *= rhs, with a vector or a scalar moved into the thread.
ThreadSteps(t) ==
    {[o |-> "add", kind |-> "assign_vec", rhs |-> IF t = "Vec3" THEN Vec3_new(Lit(1), Lit(2), Lit(3))
                                                  ELSE Vec4_new(Lit(1), Lit(2), Lit(3), Lit(4))],
     [o |-> "sub", kind |-> "assign_f32", rhs |-> Half],
     [o |-> "mul", kind |-> "assign_f32", rhs |-> Lit(-2)]}
ThreadProgs(t) == [1..MaxOps -> ThreadSteps(t)]
\* The vector each thread binds when it starts.
ThreadStart(t, th) ==
    IF th = "t1" THEN (IF t = "Vec3" THEN Vec3_new(Lit(1), Lit(2), Lit(3))
                       ELSE Vec4_new(Lit(1), Lit(2), Lit(3), Lit(4)))
    ELSE (IF t = "Vec3" THEN Vec3_new(Lit(-1), Lit(5), Lit(2))
          ELSE Vec4_new(Lit(-1), Lit(5), Lit(2), Lit(-7)))

\* The field the statement f of a compound assignment writes.
FieldOf(f) == <<"x", "y", "z", "w">>[f + 1]

\* Faulty variant: a statement of add_assign that reads self.x for every field.
assign_statement_reads_x(step, self, f) ==
    [self EXCEPT ![FieldOf(f)] =
        f32_op(step.o, self.x,
               IF step.kind = "assign_vec" THEN step.rhs[FieldOf(f)] ELSE step.rhs)]

\* One statement of add_assign (and of the other compound assignments):
\* self.x += rhs.x, or self.x += rhs for a scalar, on the field of statement f.
assign_statement(step, self, f) ==
    [self EXCEPT ![FieldOf(f)] =
        f32_op(step.o, self[FieldOf(f)],
               IF step.kind = "assign_vec" THEN step.rhs[FieldOf(f)] ELSE step.rhs)]

\* The threads are spawned: each binds its own vector and takes its program.
InitThreads ==
    /\ ty \in {"Vec3", "Vec4"}
    /\ a = Default(ty) /\ b = Default(ty) /\ a0 = a /\ b0 = b
    /\ s = PZero /\ arg = NoArg /\ pc = "threads"
    /\ op = "none" /\ form = "none" /\ ret = None
    /\ \E progs \in [Threads -> ThreadProgs(ty)] :
          threads = [th \in Threads |->
                        [v |-> ThreadStart(ty, th), prog |-> progs[th], k |-> 1, f |-> 0]]

\* Thread th runs the next statement of the compound assignment it is in, on
\* its own binding, and moves to the next assignment after the last field.
Thread_statement(th) ==
    LET me == threads[th]
        last == me.f + 1 = Cardinality(DOMAIN me.v)
    IN  /\ pc = "threads"
        /\ me.k <= Len(me.prog)
        /\ threads' = [threads EXCEPT ![th] =
                          [me EXCEPT !.v = assign_statement(me.prog[me.k], me.v, me.f),
                                     !.f = IF last THEN 0 ELSE me.f + 1,
                                     !.k = IF last THEN me.k + 1 ELSE me.k]]
        /\ UNCHANGED <<ty, a, b, s, arg, pc, op, form, ret, a0, b0>>

\* The scheduler runs a statement of any thread that has not finished.
NextThreads == \E th \in Threads : Thread_statement(th)

SpecThreads == InitThreads /\ [][NextThreads]_vars

\* ================================================================ claims

\* Equality of two f32 results: equal under ==, or both NaN.
Same(x, y) == (x = y) \/ FEq(x, y)
\* Component i of a vector, in x, y, z, w order.
Component(v, i) ==
    CASE i = 0 -> v.x
      [] i = 1 -> v.y
      [] i = 2 -> v.z
      [] i = 3 -> v.w
\* The positions of a vector of type t.
Indices(t) == 0..((IF t = "Vec2" THEN 2 ELSE IF t = "Vec3" THEN 3 ELSE 4) - 1)
SameVec(t, u, v) == \A i \in Indices(t) : Same(Component(u, i), Component(v, i))
Done(f) == pc = "done" /\ form = f

\* ------------------------------------------------------------------- C1

\* The outcomes of the entry point vec3_<o>_trait on the operands of a call.
vec3_trait(o, v, scalar, other, rhs) ==
    CASE o = "sum" -> VecExt_sum(impl_VecExt_Vec3, v)
      [] o = "min" -> VecExt_min(impl_VecExt_Vec3, v, scalar)
      [] o = "min_vec" -> VecExt_min_vec(impl_VecExt_Vec3, v, rhs)
      [] o = "max" -> VecExt_max(impl_VecExt_Vec3, v, scalar)
      [] o = "max_vec" -> VecExt_max_vec(impl_VecExt_Vec3, v, rhs)
      [] o = "abs" -> VecExt_abs(impl_VecExt_Vec3, v)
      [] o = "clamp" -> VecExt_clamp(impl_VecExt_Vec3, v, scalar, other)
      [] o = "clamp_vec" -> VecExt_clamp_vec(impl_VecExt_Vec3, v, rhs, other)
      [] o = "recip" -> VecExt_recip(impl_VecExt_Vec3, v)
      [] o = "rem_euclid" -> VecExt_rem_euclid(impl_VecExt_Vec3, v, scalar)
      [] o = "rem_euclid_vec" -> VecExt_rem_euclid_vec(impl_VecExt_Vec3, v, rhs)
      [] o = "div_euclid" -> VecExt_div_euclid(impl_VecExt_Vec3, v, scalar)
      [] o = "div_euclid_vec" -> VecExt_div_euclid_vec(impl_VecExt_Vec3, v, rhs)
SameOutcome(o, r1, r2) ==
    /\ r1.kind = r2.kind
    /\ r1.kind = "ok" =>
          IF o = "sum" THEN Same(r1.val, r2.val) ELSE SameVec("Vec3", r1.val, r2.val)

\* C1: for each of the 13 paired operations of the harness and every Vec3 and
\* scalar input, whatever vec3_<op>_manual returns (or its panic) is equal to
\* whatever vec3_<op>_trait returns on the same operands: the same panic, or
\* values whose components are equal (NaN results counting as equal).
C1_TraitEqualsManual ==
    Done("manual") =>
        \A r \in vec3_trait(op, a0, s, arg, b0) : SameOutcome(op, ret, r)

\* A manual clamp that returned a vector different from its operand.
C1_Witness ==
    /\ Done("manual") /\ op = "clamp"
    /\ ret.kind = "ok" /\ ~SameVec("Vec3", ret.val, a0)

\* ------------------------------------------------------------------- C2

\* C2: on every type implementing VecExt<N>, Vec4 included, rem_euclid(v) and
\* div_euclid(v) with a scalar v complete without failing and return the
\* vector whose component i is self[i].rem_euclid(v) (self[i].div_euclid(v))
\* for every i below N.
C2_EuclidScalarCompletes ==
    (Done("trait") /\ op \in {"rem_euclid", "div_euclid"}) =>
        /\ ret.kind = "ok"
        /\ \A i \in Indices(ty) :
              Same(Component(ret.val, i),
                   IF op = "rem_euclid" THEN f32_rem_euclid(Component(a0, i), s)
                   ELSE f32_div_euclid(Component(a0, i), s))

\* ------------------------------------------------------------------- C3

\* The value of `a_old op b` for the right-hand side of the call made.
BinaryResult ==
    CASE form = "assign_vec" /\ ty = "Vec3" -> Vec3_op_Vec3(op, a0, b0)
      [] form = "assign_vec" /\ ty = "Vec4" -> Vec4_op_Vec4(op, a0, b0)
      [] form = "assign_f32" /\ ty = "Vec3" -> Vec3_op_f32(op, a0, s)
      [] form = "assign_f32" /\ ty = "Vec4" -> Vec4_op_f32(op, a0, s)

\* C3: after `a op= b`, for each of +=, -=, *=, /=, %= on Vec3 and Vec4 and a
\* vector or scalar b, every one of the N components of a equals the
\* corresponding component of `a_old op b` computed by the binary operator.
C3_AssignMatchesBinary ==
    (pc = "done" /\ form \in {"assign_vec", "assign_f32"}) =>
        \A i \in Indices(ty) : Same(Component(a, i), Component(BinaryResult, i))

\* ------------------------------------------------------------------- C4

\* C4: for two vectors a and b of the same type and op in {+, -, *, /, %},
\* a op b is a vector r of the same arity with r[i] = a[i] op b[i] for every i.
C4_ElementWise ==
    Done("vec_vec") =>
        /\ ret.kind = "ok"
        /\ DOMAIN ret.val = DOMAIN a0
        /\ \A i \in Indices(ty) :
              Component(ret.val, i) = f32_op(op, Component(a0, i), Component(b0, i))

\* A Vec4 / Vec4 whose operands have pairwise different components.
C4_Witness ==
    /\ Done("vec_vec") /\ ty = "Vec4" /\ op = "div"
    /\ a0 = Vec4_new(Lit(1), Lit(2), Lit(3), Lit(4))
    /\ b0 = Vec4_new(Lit(-1), Lit(5), Lit(2), Lit(-7))

\* ------------------------------------------------------------------- C5

\* C5: a scalar operand is broadcast with the operand order kept:
\* (v op s)[i] = v[i] op s and (s op v)[i] = s op v[i] for every i and op.
C5_ScalarBroadcast ==
    /\ Done("vec_f32") =>
          /\ ret.kind = "ok"
          /\ \A i \in Indices(ty) : Component(ret.val, i) = f32_op(op, Component(a0, i), s)
    /\ Done("f32_vec") =>
          /\ ret.kind = "ok"
          /\ \A i \in Indices(ty) : Component(ret.val, i) = f32_op(op, s, Component(a0, i))

\* An s / v on Vec4 no component of which equals that of v / s.
C5_Witness ==
    /\ Done("f32_vec") /\ ty = "Vec4" /\ op = "div"
    /\ \A i \in Indices(ty) :
          ~Same(Component(ret.val, i), Component(Vec4_op_f32(op, a0, s), i))

\* ------------------------------------------------------------------- C6

\* C6: array and tuple conversion keep every component and its position:
\* component i of the array (tuple) is component i of the vector in x, y, z, w
\* order in both directions, and converting back yields the original.
C6_ConversionLossless ==
    /\ (Done("convert") /\ op = "into_array") =>
          /\ DOMAIN ret.val = Indices(ty)
          /\ \A i \in Indices(ty) : ret.val[i] = Component(a0, i)
          /\ (IF ty = "Vec3" THEN Vec3_from_array(ret.val) ELSE Vec4_from_array(ret.val)) = a0
    /\ (Done("convert") /\ op = "from_array") =>
          /\ \A i \in Indices(ty) : Component(ret.val, i) = arg[i]
          /\ (IF ty = "Vec3" THEN Vec3_into_array(ret.val) ELSE Vec4_into_array(ret.val)) = arg
    /\ (Done("convert") /\ op = "into_tuple") =>
          /\ DOMAIN ret.val = {i + 1 : i \in Indices(ty)}
          /\ \A i \in Indices(ty) : ret.val[i + 1] = Component(a0, i)
          /\ (IF ty = "Vec3" THEN Vec3_from_tuple(ret.val) ELSE Vec4_from_tuple(ret.val)) = a0
    /\ (Done("convert") /\ op = "from_tuple") =>
          /\ \A i \in Indices(ty) : Component(ret.val, i) = arg[i + 1]
          /\ (IF ty = "Vec3" THEN Vec3_into_tuple(ret.val) ELSE Vec4_into_tuple(ret.val)) = arg

\* A Vec4 built from an array of four different components.
C6_Witness ==
    /\ Done("convert") /\ op = "from_array" /\ ty = "Vec4"
    /\ \A i, j \in Indices(ty) : i # j => arg[i] # arg[j]

\* ------------------------------------------------------------------- C7

\* C7: a[i] and a[i] = v succeed exactly for 0 <= i < N, where they read or
\* write component i (x, y, z, w order) and nothing else; for i >= N the call
\* panics, and the vector is left as it was.
C7_IndexRange ==
    (pc = "done" /\ op \in {"index", "index_mut"}) =>
        /\ ret.kind \in {"ok", "panic"}
        /\ ret.kind = "ok" <=> arg \in Indices(ty)
        /\ ret.kind = "panic" => a = a0
        /\ (op = "index" /\ ret.kind = "ok") => (ret.val = Component(a0, arg) /\ a = a0)
        /\ (op = "index_mut" /\ ret.kind = "ok") =>
              /\ Component(a, arg) = s
              /\ \A j \in Indices(ty) : j # arg => Component(a, j) = Component(a0, j)

\* A write at index 3 of a Vec3 that panicked.
C7_Witness ==
    /\ pc = "done" /\ op = "index_mut" /\ ty = "Vec3" /\ arg = 3
    /\ ret.kind = "panic" /\ Component(a0, 2) # s

\* ------------------------------------------------------------------- C8

\* The forms of call that write to the receiver.
Writes == {"assign_vec", "assign_f32", "macro_assign_f32", "index_mut", "as_mut", "iter_mut"}

\* C8: after a call, the operand binding b holds the value it held before, and
\* so does the receiver a unless the call is a compound assignment or a write
\* through index_mut.
C8_Frame ==
    pc = "done" =>
        /\ b = b0
        /\ form \notin Writes => a = a0

\* A compound assignment with a vector right-hand side that changed a.
C8_Witness ==
    /\ Done("assign_vec") /\ a # a0 /\ b = b0 /\ b0 # Default(ty)

\* ------------------------------------------------------------------- C9

\* The six products of components that cross(u, v) takes are all finite.
ProductsFinite(u, v) ==
    /\ IsFin(FMul(u.y, v.z)) /\ IsFin(FMul(v.y, u.z))
    /\ IsFin(FMul(u.z, v.x)) /\ IsFin(FMul(v.z, u.x))
    /\ IsFin(FMul(u.x, v.y)) /\ IsFin(FMul(v.x, u.y))

\* C9 as stated: a.cross(b) == -(b.cross(a)) for all a and b, and
\* a.cross(a) == Vec3::ZERO for every a (NaN results counting as equal).
C9_AsStated ==
    (pc = "done" /\ op = "cross") =>
        /\ SameVec("Vec3", ret.val, Vec3_neg(Vec3_cross(b0, a0)))
        /\ a0 = b0 => SameVec("Vec3", ret.val, Vec3_ZERO)

\* C9, amended: a.cross(b) and -(b.cross(a)) agree in every component (equal,
\* or both NaN), and equal under == when the products of components are
\* finite; a.cross(a) == Vec3::ZERO exactly when the products of the
\* components of a are finite.
C9_CrossAntisymmetric ==
    (pc = "done" /\ op = "cross") =>
        /\ SameVec("Vec3", ret.val, Vec3_neg(Vec3_cross(b0, a0)))
        /\ ProductsFinite(a0, b0) => Vec3_eq(ret.val, Vec3_neg(Vec3_cross(b0, a0)))
        /\ a0 = b0 => (Vec3_eq(ret.val, Vec3_ZERO) <=> ProductsFinite(a0, a0))

\* A cross product of two different vectors with finite products and no zero
\* component.
C9_Witness ==
    /\ pc = "done" /\ op = "cross" /\ a0 # b0 /\ ProductsFinite(a0, b0)
    /\ \A i \in Indices("Vec3") : ~IsZero(Component(ret.val, i)) /\ IsFin(Component(ret.val, i))

\* ------------------------------------------------------------------ C10

\* x * y, x + y and x - y are computed without rounding or overflow.
ExactMul(x, y) ==
    /\ IsFin(x) /\ IsFin(y) /\ IsFin(FMul(x, y))
    /\ FMul(x, y).mag * UnitMag = x.mag * y.mag
ExactAdd(x, y) ==
    /\ IsFin(x) /\ IsFin(y) /\ IsFin(FAdd(x, y))
    /\ SVal(FAdd(x, y)) = SVal(x) + SVal(y)
ExactSub(x, y) == ExactAdd(x, FNegate(y))
\* Every step of u.cross(v), and of u.dot(v), is exact.
ExactCross(u, v) ==
    /\ ExactMul(u.y, v.z) /\ ExactMul(v.y, u.z) /\ ExactSub(FMul(u.y, v.z), FMul(v.y, u.z))
    /\ ExactMul(u.z, v.x) /\ ExactMul(v.z, u.x) /\ ExactSub(FMul(u.z, v.x), FMul(v.z, u.x))
    /\ ExactMul(u.x, v.y) /\ ExactMul(v.x, u.y) /\ ExactSub(FMul(u.x, v.y), FMul(v.x, u.y))
ExactDot(u, v) ==
    /\ ExactMul(u.x, v.x) /\ ExactMul(u.y, v.y) /\ ExactMul(u.z, v.z)
    /\ ExactAdd(FMul(u.x, v.x), FMul(u.y, v.y))
    /\ ExactAdd(FAdd(FMul(u.x, v.x), FMul(u.y, v.y)), FMul(u.z, v.z))

\* The formula of the claim, and the three products of the standard basis.
CrossFormula ==
    /\ ret.val.x = FSub(FMul(a0.y, b0.z), FMul(b0.y, a0.z))
    /\ ret.val.y = FSub(FMul(a0.z, b0.x), FMul(b0.z, a0.x))
    /\ ret.val.z = FSub(FMul(a0.x, b0.y), FMul(b0.x, a0.y))
    /\ (a0 = Vec3_X /\ b0 = Vec3_Y) => Vec3_eq(ret.val, Vec3_Z)
    /\ (a0 = Vec3_Y /\ b0 = Vec3_Z) => Vec3_eq(ret.val, Vec3_X)
    /\ (a0 = Vec3_Z /\ b0 = Vec3_X) => Vec3_eq(ret.val, Vec3_Y)

\* C10 as stated: the formula, the basis products, and a.cross(b).dot(a) == 0
\* and a.cross(b).dot(b) == 0 for all a and b.
C10_AsStated ==
    (pc = "done" /\ op = "cross") =>
        /\ CrossFormula
        /\ FEq(Vec3_dot(ret.val, a0), PZero)
        /\ FEq(Vec3_dot(ret.val, b0), PZero)

\* C10, amended: a.cross(b) is (y1*z2 - y2*z1, z1*x2 - z2*x1, x1*y2 - x2*y1),
\* X.cross(Y) == Z, Y.cross(Z) == X, Z.cross(X) == Y, and a.cross(b).dot(a) == 0
\* and a.cross(b).dot(b) == 0 whenever every product, difference and sum of the
\* computation is exact.
C10_CrossRightHanded ==
    (pc = "done" /\ op = "cross") =>
        /\ CrossFormula
        /\ (ExactCross(a0, b0) /\ ExactDot(ret.val, a0)) => FEq(Vec3_dot(ret.val, a0), PZero)
        /\ (ExactCross(a0, b0) /\ ExactDot(ret.val, b0)) => FEq(Vec3_dot(ret.val, b0), PZero)

\* An exact cross product without a zero component, orthogonal to both operands.
C10_Witness ==
    /\ pc = "done" /\ op = "cross"
    /\ ExactCross(a0, b0) /\ ExactDot(ret.val, a0) /\ ExactDot(ret.val, b0)
    /\ \A i \in Indices("Vec3") : ~IsZero(Component(ret.val, i))

\* ------------------------------------------------------------------ C11

\* n is a unit vector: n.dot(n) is exactly 1.
ExactUnit(n) == ExactDot(n, n) /\ FEq(Vec3_dot(n, n), One)
\* Every step of v.reflect(n) is exact.
ExactReflect(v, n) ==
    /\ ExactDot(v, n)
    /\ \A i \in Indices("Vec3") :
          /\ ExactMul(Lit(2), Component(n, i))
          /\ ExactMul(FMul(Lit(2), Component(n, i)), Vec3_dot(v, n))
          /\ ExactSub(Component(v, i), FMul(FMul(Lit(2), Component(n, i)), Vec3_dot(v, n)))
\* v.reflect(n) is v - 2*n*(v.dot(n)), component by component.
ReflectFormula ==
    LET d == FAdd(FAdd(FMul(a0.x, b0.x), FMul(a0.y, b0.y)), FMul(a0.z, b0.z))
    IN  \A i \in Indices("Vec3") :
            Component(ret.val, i) = FSub(Component(a0, i), FMul(FMul(Lit(2), Component(b0, i)), d))

\* C11 as stated: for every v and every unit normal n, v.reflect(n) is
\* v - 2*n*(v.dot(n)), v.reflect(n).dot(n) == -(v.dot(n)), and reflecting twice
\* returns v.
C11_AsStated ==
    (pc = "done" /\ op = "reflect") =>
        /\ ReflectFormula
        /\ ExactUnit(b0) =>
              /\ Same(Vec3_dot(ret.val, b0), FNegate(Vec3_dot(a0, b0)))
              /\ SameVec("Vec3", Vec3_reflect(ret.val, b0), a0)

\* C11, amended: v.reflect(n) is v - 2*n*(v.dot(n)); for a unit normal n,
\* v.reflect(n).dot(n) == -(v.dot(n)) and reflecting twice returns v whenever
\* every product, sum and difference of the computation is exact (v is finite
\* and nothing overflows).
C11_ReflectAboutUnitNormal ==
    (pc = "done" /\ op = "reflect") =>
        /\ ReflectFormula
        /\ (ExactUnit(b0) /\ ExactReflect(a0, b0) /\ ExactDot(ret.val, b0)) =>
              FEq(Vec3_dot(ret.val, b0), FNegate(Vec3_dot(a0, b0)))
        /\ (ExactUnit(b0) /\ ExactReflect(a0, b0) /\ ExactReflect(ret.val, b0)) =>
              Vec3_eq(Vec3_reflect(ret.val, b0), a0)

\* An exact reflection about a unit normal of a vector with a component along it.
C11_Witness ==
    /\ pc = "done" /\ op = "reflect"
    /\ ExactUnit(b0) /\ ExactReflect(a0, b0) /\ ExactDot(ret.val, b0)
    /\ ExactReflect(ret.val, b0)
    /\ \A i \in Indices("Vec3") : ~IsZero(Component(a0, i))
    /\ ~Vec3_eq(ret.val, a0)

\* ------------------------------------------------------------------ C12

\* c = -(normal.dot(self)) and k = 1 - r*r*(1 - c*c) of the call made.
RefractC == FNegate(Vec3_dot(b0, a0))
RefractK == FSub(One, FMul(FMul(s, s), FSub(One, FMul(RefractC, RefractC))))
\* The result is r*self + (r*c - sqrt(k))*normal, component by component.
RefractFormula ==
    \A i \in Indices("Vec3") :
        Component(ret.val, i) =
            FAdd(FMul(s, Component(a0, i)),
                 FMul(FSub(FMul(s, RefractC), f32_sqrt(RefractK)), Component(b0, i)))

\* C12 as stated: refract returns Vec3::ZERO exactly when k is negative, and
\* r*self + (r*c - sqrt(k))*normal otherwise.
C12_AsStated ==
    (pc = "done" /\ op = "refract") =>
        IF FLt(RefractK, PZero) THEN ret.val = Vec3_ZERO ELSE RefractFormula

\* C12, amended: refract returns the fallback Vec3::ZERO exactly when
\* k >= 0.0 is false, that is when k is negative or NaN; when k >= 0
\* (including k == 0) it returns r*self + (r*c - sqrt(k))*normal.
C12_RefractFallback ==
    (pc = "done" /\ op = "refract") =>
        IF FLt(RefractK, PZero) \/ IsNaN(RefractK)
        THEN ret.val = Vec3_ZERO
        ELSE FLe(PZero, RefractK) /\ RefractFormula

\* A refraction at k == 0 whose result is not the zero vector.
C12_Witness ==
    /\ pc = "done" /\ op = "refract"
    /\ IsZero(RefractK)
    /\ \A i \in Indices("Vec3") : IsFin(Component(ret.val, i))
    /\ ~Vec3_eq(ret.val, Vec3_ZERO)

\* ------------------------------------------------------------------ C13

\* The call made is a.lerp(b, t) (Vec3::lerp) or VecExt::lerp(a, b, t).
DoneLerp == pc = "done" /\ op = "lerp" /\ ret.kind = "ok"
\* The result is v*(1 - t) + w*t in every component, whatever t is.
LerpFormula ==
    \A i \in Indices(ty) :
        Component(ret.val, i) =
            FAdd(FMul(Component(a0, i), FSub(One, s)), FMul(Component(b0, i), s))

\* C13 as stated: v.lerp(w, 0.0) == v and v.lerp(w, 1.0) == w for all v and w,
\* and the result is v*(1 - t) + w*t for every t.
C13_AsStated ==
    DoneLerp =>
        /\ LerpFormula
        /\ s = PZero => SameVec(ty, ret.val, a0)
        /\ s = One => SameVec(ty, ret.val, b0)

\* C13, amended: v.lerp(w, t) is v*(1 - t) + w*t for every t, unclamped;
\* v.lerp(w, 0.0) agrees with v in every component where w is finite, and
\* v.lerp(w, 1.0) agrees with w in every component where v is finite (the
\* product of an infinite or NaN component and 0.0 is NaN).
C13_LerpEndpoints ==
    DoneLerp =>
        /\ LerpFormula
        /\ s = PZero =>
              \A i \in Indices(ty) :
                  IsFin(Component(b0, i)) => Same(Component(ret.val, i), Component(a0, i))
        /\ s = One =>
              \A i \in Indices(ty) :
                  IsFin(Component(a0, i)) => Same(Component(ret.val, i), Component(b0, i))

\* VecExt::lerp at t = 1.0 between two different finite vectors of four components.
C13_Witness ==
    /\ DoneLerp /\ form = "trait" /\ ty = "Vec4" /\ s = One
    /\ \A i \in Indices(ty) :
          /\ IsFin(Component(a0, i)) /\ IsFin(Component(b0, i))
          /\ ~FEq(Component(a0, i), Component(b0, i))
    /\ Vec4_eq(ret.val, b0)

\* ------------------------------------------------------------------ C14

\* The call made is a.midpoint(b) (Vec3::midpoint) or VecExt::midpoint(a, b).
DoneMidpoint == pc = "done" /\ op = "midpoint" /\ ret.kind = "ok"
\* Component i of v.lerp(w, 0.5), and of w.midpoint(v).
LerpHalf(v, w, i) ==
    FAdd(FMul(Component(v, i), FSub(One, Half)), FMul(Component(w, i), Half))
MidpointOf(v, w, i) == FMul(FAdd(Component(v, i), Component(w, i)), Half)
\* Between finite x and y, x + y does not overflow and the halves of x, of y
\* and of x + y do not underflow.
HalvesExactly(x, y) ==
    (IsFin(x) /\ IsFin(y)) =>
        /\ IsFin(FAdd(x, y))
        /\ ExactMul(x, Half) /\ ExactMul(y, Half) /\ ExactMul(FAdd(x, y), Half)

RECURSIVE SumOfProducts(_, _, _)
SumOfProducts(u, v, n) ==
    IF n = 1 THEN FMul(Component(u, 0), Component(v, 0))
    ELSE FAdd(SumOfProducts(u, v, n - 1), FMul(Component(u, n - 1), Component(v, n - 1)))
SquaredLength(v) == SumOfProducts(v, v, Cardinality(Indices(ty)))
\* The outcomes of v.dot(v) in the form of the call made.
DotWithSelf(v) == IF form = "trait" THEN VecExt_dot(ty, v, v) ELSE {Ok(Vec3_dot(v, v))}

\* C15: dot(a, b) is the sum over i of a[i]*b[i]; v.length_2() is v.dot(v);
\* v.length() is the square root of v.dot(v); the squared length is never
\* negative (it is NaN or at least 0).
C15_DotAndLength ==
    /\ (pc = "done" /\ op = "dot") =>
          Same(ret.val, SumOfProducts(a0, b0, Cardinality(Indices(ty))))
    /\ (pc = "done" /\ op = "length_2") =>
          /\ \A d \in DotWithSelf(a0) : Same(ret.val, d.val)
          /\ Same(ret.val, SquaredLength(a0))
          /\ IsNaN(ret.val) \/ (FLe(PZero, ret.val) /\ ~ret.val.neg)
    /\ (pc = "done" /\ op = "length") =>
          /\ \A d \in DotWithSelf(a0) : Same(ret.val, f32_sqrt(d.val))
          /\ Same(ret.val, f32_sqrt(SquaredLength(a0)))

\* The length of a vector of four non-zero components, with a rounded root.
C15_Witness ==
    /\ pc = "done" /\ op = "length" /\ form = "trait" /\ ty = "Vec4"
    /\ \A i \in Indices(ty) : IsFin(Component(a0, i)) /\ ~IsZero(Component(a0, i))
    /\ IsFin(ret.val) /\ ~IsZero(ret.val)
    /\ ~FEq(FMul(ret.val, ret.val), SquaredLength(a0))

\* ------------------------------------------------------------------ C16

\* The divisor of component i in the call made: the scalar of rem_euclid, or
\* component i of the vector of rem_euclid_vec.
Divisor(i) == IF op = "rem_euclid" THEN s ELSE Component(b0, i)

\* C16: for every a and every positive divisor, a.rem_euclid(b) and
\* a.rem_euclid_vec(b) return a vector whose every component r[i] satisfies
\* 0 <= r[i] < b (respectively b[i]).
C16_EuclidRemainderRange ==
    (/\ Done("trait") /\ op \in {"rem_euclid", "rem_euclid_vec"}
     /\ \A i \in Indices(ty) : FGt(Divisor(i), PZero)) =>
        /\ ret.kind = "ok"
        /\ \A i \in Indices(ty) :
              /\ FLe(PZero, Component(ret.val, i))
              /\ FLt(Component(ret.val, i), Divisor(i))

\* ------------------------------------------------------------------ C17

\* The unit-axis constants and their negations, of the type of the bindings.
AxisConstants ==
    IF ty = "Vec3" THEN {Vec3_consts[c] : c \in DOMAIN Vec3_consts \ {"ZERO"}}
    ELSE {Vec4_consts[c] : c \in DOMAIN Vec4_consts \ {"ZERO"}}
\* The outcomes of (-v).length() in the form of the call made.
LengthOfNegated(v) ==
    IF form = "trait"
    THEN VecExt_length(ty, IF ty = "Vec3" THEN Vec3_neg(v) ELSE Vec4_neg(v))
    ELSE {Ok(Vec3_length(Vec3_neg(v)))}

\* C17: every unit-axis constant and every negated one has length exactly 1;
\* (-v).length() == v.length() for every v; Vec3::new(3, 4, 0).length() == 5.
C17_LengthOfAxes ==
    (pc = "done" /\ op = "length") =>
        /\ a0 \in AxisConstants => ret.val = One
        /\ \A l \in LengthOfNegated(a0) : Same(ret.val, l.val)
        /\ a0 = Vec3_new(Lit(3), Lit(4), PZero) => ret.val = Lit(5)

\* Vec3::NEG_Y.length() has returned 1.0.
C17_Witness ==
    /\ pc = "done" /\ op = "length" /\ form = "method"
    /\ a0 = Vec3_consts.NEG_Y
    /\ ret.val = One

\* ------------------------------------------------------------------ C18

\* The position of each axis, and the basis constant each NEG_ constant negates.
AxisIndex == [X |-> 0, Y |-> 1, Z |-> 2, W |-> 3]
NegatedAxis == [NEG_X |-> "X", NEG_Y |-> "Y", NEG_Z |-> "Z", NEG_W |-> "W"]
\* Component i of the basis vector of axis k.
BasisComponent(k, i) == IF i = AxisIndex[k] THEN One ELSE PZero
\* The result has exactly the N components of the type.
HasArity(v) == DOMAIN v = DOMAIN Default(ty)

\* C18: for Vec2, Vec3 and Vec4, ZERO has every component 0 and equals
\* splat(0.0) and the Default value; v + ZERO == v; the basis constant of axis
\* k has component k equal to 1 and every other component 0; each NEG_ constant
\* is the component-wise negation of its basis constant; splat(s) has all N
\* components equal to s.
C18_Constants ==
    /\ (Done("const") /\ op = "ZERO") =>
          /\ HasArity(ret.val)
          /\ \A i \in Indices(ty) : Component(ret.val, i) = PZero
          /\ ret.val = Default(ty)
    /\ (Done("const") /\ op \in DOMAIN AxisIndex) =>
          /\ HasArity(ret.val)
          /\ AxisIndex[op] \in Indices(ty)
          /\ \A i \in Indices(ty) : Component(ret.val, i) = BasisComponent(op, i)
    /\ (Done("const") /\ op \in DOMAIN NegatedAxis) =>
          /\ HasArity(ret.val)
          /\ AxisIndex[NegatedAxis[op]] \in Indices(ty)
          /\ \A i \in Indices(ty) :
                FEq(Component(ret.val, i), FNegate(BasisComponent(NegatedAxis[op], i)))
    /\ Done("new") =>
          /\ HasArity(ret.val)
          /\ \A i \in Indices(ty) : Component(ret.val, i) = s
          /\ s = PZero => ret.val = Default(ty)
    /\ (Done("vec_vec") /\ op = "add" /\ b0 = Default(ty)) =>
          SameVec(ty, ret.val, a0)

\* Vec2::NEG_Y, the negation of Vec2::Y, has been read.
C18_Witness ==
    /\ Done("const") /\ op = "NEG_Y" /\ ty = "Vec2"
    /\ ret.val.x = PZero /\ ret.val.y = Lit(-1)

\* ------------------------------------------------------------------ C19

\* C19: a.partial_cmp(&b) is the comparison of a.length_2() with b.length_2():
\* Less iff length_2(a) < length_2(b), Greater iff length_2(a) > length_2(b),
\* and Equal when the squared lengths are equal, also for a != b.
C19_OrderBySquaredLength ==
    Done("cmp") =>
        /\ ret.val = "Some(Less)" <=> FLt(SquaredLength(a0), SquaredLength(b0))
        /\ ret.val = "Some(Greater)" <=> FGt(SquaredLength(a0), SquaredLength(b0))
        /\ ret.val = "Some(Equal)" <=> FEq(SquaredLength(a0), SquaredLength(b0))
        /\ ret.val = "None" <=> (IsNaN(SquaredLength(a0)) \/ IsNaN(SquaredLength(b0)))

\* Two vectors of four components, unequal under ==, of the same finite squared
\* length, compare as Equal.
C19_Witness ==
    /\ Done("cmp") /\ ty = "Vec4" /\ ret.val = "Some(Equal)"
    /\ ~Vec4_eq(a0, b0)
    /\ IsFin(SquaredLength(a0)) /\ ~IsZero(SquaredLength(a0))

\* ------------------------------------------------------------------ C20

\* The call made passed at least one operand by reference.
DoneRefForm ==
    /\ pc = "done"
    /\ form \in {"vec_vec", "vec_f32", "f32_vec", "assign_vec", "assign_f32"}
    /\ arg \in {"&self", "&rhs", "&self &rhs"}
\* The result of the value-value form of the call made, on the referenced values.
ValueForm ==
    CASE form = "vec_vec" /\ ty = "Vec3" -> Vec3_op_Vec3(op, a0, b0)
      [] form = "vec_vec" /\ ty = "Vec4" -> Vec4_op_Vec4(op, a0, b0)
      [] form = "vec_f32" /\ ty = "Vec3" -> Vec3_op_f32(op, a0, s)
      [] form = "vec_f32" /\ ty = "Vec4" -> Vec4_op_f32(op, a0, s)
      [] form = "f32_vec" /\ ty = "Vec3" -> f32_op_Vec3(op, s, a0)
      [] form = "f32_vec" /\ ty = "Vec4" -> f32_op_Vec4(op, s, a0)
      [] form = "assign_vec" /\ ty = "Vec3" -> Vec3_op_assign_Vec3(op, a0, b0)
      [] form = "assign_vec" /\ ty = "Vec4" -> Vec4_op_assign_Vec4(op, a0, b0)
      [] form = "assign_f32" /\ ty = "Vec3" -> Vec3_op_assign_f32(op, a0, s)
      [] form = "assign_f32" /\ ty = "Vec4" -> Vec4_op_assign_f32(op, a0, s)

\* C20: a binary operator or compound assignment of Vec3 or Vec4 with an
\* operand passed by reference gives what the value-value form gives on the
\* referenced values, and leaves the referenced values as they were.
C20_ReferenceForms ==
    DoneRefForm =>
        /\ b = b0
        /\ IF form \in {"assign_vec", "assign_f32"}
           THEN a = ValueForm
           ELSE ret = Ok(ValueForm) /\ a = a0

\* A &a - &b on Vec4 that differs from &b - &a in every component.
C20_Witness ==
    /\ DoneRefForm /\ arg = "&self &rhs" /\ ty = "Vec4" /\ form = "vec_vec" /\ op = "sub"
    /\ \A i \in Indices(ty) :
          ~Same(Component(ret.val, i), Component(Vec4_op_Vec4(op, b0, a0), i))

\* ------------------------------------------------------------------ C21

\* The call made is clamp or clamp_vec, by the trait or by the manual entry
\* point, and the bounds of component i.
DoneClamp == pc = "done" /\ op \in {"clamp", "clamp_vec"} /\ form \in {"trait", "manual"}
MinBound(i) == IF op = "clamp" THEN s ELSE Component(b0, i)
MaxBound(i) == IF op = "clamp" THEN arg ELSE Component(arg, i)
BoundsOrdered == \A i \in Indices(ty) : FLe(MinBound(i), MaxBound(i))
\* r[i] is min[i] below min[i], max[i] above max[i], and v[i] otherwise.
ClampCases(i) ==
    LET v == Component(a0, i)
        r == Component(ret.val, i)
    IN  /\ FLt(v, MinBound(i)) => r = MinBound(i)
        /\ FGt(v, MaxBound(i)) => r = MaxBound(i)
        /\ (~FLt(v, MinBound(i)) /\ ~FGt(v, MaxBound(i))) => r = v
\* Clamping the result again leaves it as it is.
ClampIdempotent(i) ==
    f32_clamp(Component(ret.val, i), MinBound(i), MaxBound(i)) = Component(ret.val, i)
InBoundsOf(i) ==
    /\ FLe(MinBound(i), Component(ret.val, i))
    /\ FLe(Component(ret.val, i), MaxBound(i))

\* C21 as stated: with min <= max, clamp and clamp_vec return r with the three
\* cases, every r[i] lies in [min[i], max[i]], and clamp is idempotent.
C21_AsStated ==
    (DoneClamp /\ BoundsOrdered) =>
        /\ ret.kind = "ok"
        /\ \A i \in Indices(ty) : ClampCases(i) /\ ClampIdempotent(i) /\ InBoundsOf(i)

\* C21, amended: with min <= max, clamp and clamp_vec return r with the three
\* cases and clamp is idempotent; r[i] lies in [min[i], max[i]] for every
\* component in which v[i] is not NaN, and is NaN where v[i] is NaN.
C21_ClampCases ==
    (DoneClamp /\ BoundsOrdered) =>
        /\ ret.kind = "ok"
        /\ \A i \in Indices(ty) :
              /\ ClampCases(i) /\ ClampIdempotent(i)
              /\ IF IsNaN(Component(a0, i)) THEN IsNaN(Component(ret.val, i))
                 ELSE InBoundsOf(i)

\* clamp({-1, 5, 2}, 0.0, 3.0) has returned {0, 3, 2}.
C21_Witness ==
    /\ DoneClamp /\ op = "clamp" /\ form = "trait" /\ ty = "Vec3"
    /\ a0 = Vec3_new(Lit(-1), Lit(5), Lit(2)) /\ s = PZero /\ arg = Lit(3)
    /\ ret = Ok(Vec3_new(PZero, Lit(3), Lit(2)))

\* ------------------------------------------------------------------ C22

InfOrNaN(x) == IsInf(x) \/ IsNaN(x)
ZeroLength(v) == \A i \in Indices(ty) : IsZero(Component(v, i))
\* The vector a call of form f has produced: returned, or assigned to a.
Produced == IF form \in {"assign_vec", "assign_f32"} THEN a ELSE ret.val
\* A division a0 / s, s / a0 or a0 / b0 (binary or compound) has been made,
\* and the divisor of component i.
DoneDivision ==
    pc = "done" /\ op = "div" /\ form \in {"vec_vec", "vec_f32", "f32_vec", "assign_vec", "assign_f32"}
DivisorOf(i) ==
    CASE form \in {"vec_f32", "assign_f32"} -> s
      [] form \in {"vec_vec", "assign_vec"} -> Component(b0, i)
      [] form = "f32_vec" -> Component(a0, i)
DoneLengthCall(o) == pc = "done" /\ op = o /\ form \in {"trait", "method"}

Arity == Cardinality(Indices(ty))
\* Every product and every partial sum of the dot product of u and v is exact.
RECURSIVE ExactSumOfProducts(_, _, _)
ExactSumOfProducts(u, v, n) ==
    IF n = 1 THEN ExactMul(Component(u, 0), Component(v, 0))
    ELSE /\ ExactSumOfProducts(u, v, n - 1)
         /\ ExactMul(Component(u, n - 1), Component(v, n - 1))
         /\ ExactAdd(SumOfProducts(u, v, n - 1), FMul(Component(u, n - 1), Component(v, n - 1)))
\* The square root of x, and the reciprocal of x, are exact.
ExactRoot(x) == IsFin(x) /\ ~x.neg /\ f32_sqrt(x).mag * f32_sqrt(x).mag = x.mag * UnitMag
ExactRecip(x) == IsFin(x) /\ IsFin(FDiv(One, x)) /\ FDiv(One, x).mag * x.mag = UnitMag * UnitMag
\* 1 / length(v), from the sum of the squares of the components of v.
RecipOfLength(v) == FDiv(One, f32_sqrt(SquaredLength(v)))
\* v * (1 / length(v)), component i.
Normalized(v, i) == FMul(Component(v, i), RecipOfLength(v))
\* The squared length of v, its root and the reciprocal of the root are exact,
\* and so is every product of v * (1 / length(v)) and the squared length of n.
ExactNormalize(v, n) ==
    /\ ExactSumOfProducts(v, v, Arity) /\ ~IsZero(SquaredLength(v))
    /\ ExactRoot(SquaredLength(v)) /\ ExactRecip(f32_sqrt(SquaredLength(v)))
    /\ \A i \in Indices(ty) : ExactMul(Component(v, i), RecipOfLength(v))
    /\ ExactSumOfProducts(n, n, Arity)
IsZeroVector(v) == \A i \in Indices(ty) : IsZero(Component(v, i))
NonZeroLength(v) == ~IsNaN(SquaredLength(v)) /\ ~IsZero(SquaredLength(v))

WholeAssign(step, v) ==
    CASE step.kind = "assign_vec" /\ ty = "Vec3" -> Vec3_op_assign_Vec3(step.o, v, step.rhs)
      [] step.kind = "assign_vec" /\ ty = "Vec4" -> Vec4_op_assign_Vec4(step.o, v, step.rhs)
      [] step.kind = "assign_f32" /\ ty = "Vec3" -> Vec3_op_assign_f32(step.o, v, step.rhs)
      [] step.kind = "assign_f32" /\ ty = "Vec4" -> Vec4_op_assign_f32(step.o, v, step.rhs)
\* The value of the binding after the first n assignments of prog, run alone.
RECURSIVE RunAlone(_, _, _)
RunAlone(v, prog, n) ==
    IF n = 0 THEN v ELSE WholeAssign(prog[n], RunAlone(v, prog, n - 1))
Finished(th) == threads[th].k > Len(threads[th].prog)
\* Every thread that has finished holds what its program gives when run alone.
FinalAsAlone ==
    \A th \in Threads :
        (pc = "threads" /\ Finished(th)) =>
            threads[th].v = RunAlone(ThreadStart(ty, th), threads[th].prog, MaxOps)
\* A step changes the binding of one thread at most, and no program.
OnlyOwnBinding ==
    /\ \A th, other \in Threads :
          (th # other /\ threads'[th].v # threads[th].v) => threads'[other] = threads[other]
    /\ \A th \in Threads : threads'[th].prog = threads[th].prog

\* C24: with each vector bound in one thread only, every interleaving of the
\* threads' statements leaves each thread's vector with the value its sequence
\* of compound assignments gives when run alone, and no statement writes the
\* binding of another thread.
C24_ThreadsIndependent == []FinalAsAlone /\ [][OnlyOwnBinding]_vars

\* Both threads are part-way through a compound assignment, each with some
\* fields of its vector written and some not.
C24_Witness ==
    /\ pc = "threads"
    /\ \A th \in Threads : threads[th].f > 0 /\ threads[th].v # ThreadStart(ty, th)
    /\ threads["t1"].prog # threads["t2"].prog

\* ------------------------------------------------------------------ C25

\* A scalar operator of impl_vector! has been applied: a0 o s, s o a0, a o= s.
DoneMacroScalar == pc = "done" /\ form \in {"macro_vec_f32", "macro_f32_vec", "macro_assign_f32"}
\* Component i of the vector the operator produces, and of the broadcast result.
MacroProduced(i) ==
    IF form = "macro_assign_f32" THEN Component(a, i) ELSE Component(ret.val, i)
Broadcast(i) ==
    IF form = "macro_f32_vec" THEN f32_op(op, s, Component(a0, i))
    ELSE f32_op(op, Component(a0, i), s)

\* C25: for N in {2, 3, 4}, every vector-scalar and scalar-vector operator and
\* every scalar compound assignment of impl_vector! completes without failing
\* and produces, or updates, all N components with the scalar applied.
C25_ScalarOperatorsKeepArity ==
    DoneMacroScalar =>
        /\ ret.kind = "ok"
        /\ \A i \in Indices(ty) : Same(MacroProduced(i), Broadcast(i))

\* ------------------------------------------------------------------ C26

\* A store through as_mut, iter_mut or index_mut on a Vec4, at position arg.
DoneStore == pc = "done" /\ ty = "Vec4" /\ form \in {"as_mut", "iter_mut", "index_mut"}

\* C26: for a Vec4 v, as_ref()[i] == v[i] == to_array()[i] for i in [0, 4);
\* into_iter and iter yield exactly the 4 items x, y, z, w in that order; a
\* store through as_mut, iter_mut or index_mut at a position i in [0, 4) sets
\* component i and leaves the other three as they were.
C26_ViewsAgree ==
    /\ (pc = "done" /\ op = "as_ref" /\ form = "view") =>
          /\ ret.kind = "ok" /\ DOMAIN ret.val = 0..3
          /\ \A i \in 0..3 :
                /\ ret.val[i] = Vec4_index(a0, i).val
                /\ ret.val[i] = VecExt_to_array(ty, a0)[i]
                /\ ret.val[i] = Component(a0, i)
    /\ (pc = "done" /\ op \in {"into_iter", "iter"} /\ form = "view") =>
          ret = Ok(<<a0.x, a0.y, a0.z, a0.w>>)
    /\ (DoneStore /\ arg \in 0..3) =>
          /\ ret.kind = "ok"
          /\ \A i \in 0..3 : Component(a, i) = IF i = arg THEN s ELSE Component(a0, i)

\* A store through as_mut at position 3 has changed w.
C26_Witness ==
    DoneStore /\ form = "as_mut" /\ arg = 3 /\ a.w # a0.w /\ a.w = s

\* ------------------------------------------------------------------ C27

\* Vec3::clamp(min, max) has been called on a0, with min in b0 and max in arg.
DoneVec3Clamp == pc = "done" /\ op = "clamp" /\ form = "method"
\* The per-component formula of VecExt::clamp_vec at position i.
ClampVecFormula(i) == f32_clamp(Component(a0, i), Component(b0, i), Component(arg, i))

\* C27 as stated: Vec3::clamp returns what the formula of clamp_vec gives in
\* every component with min[i] <= max[i], and min[i] where min[i] > max[i].
C27_AsStated ==
    DoneVec3Clamp =>
        /\ ret.kind = "ok"
        /\ \A i \in Indices(ty) :
              /\ FLe(Component(b0, i), Component(arg, i)) =>
                    Same(Component(ret.val, i), ClampVecFormula(i))
              /\ FGt(Component(b0, i), Component(arg, i)) =>
                    Same(Component(ret.val, i), Component(b0, i))

\* C27, amended: Vec3::clamp never fails; where min[i] <= max[i] it returns
\* what the formula of clamp_vec gives if v[i] is not NaN, and max[i] if v[i]
\* is NaN; where min[i] > max[i] it returns min[i].
C27_InherentClamp ==
    DoneVec3Clamp =>
        /\ ret.kind = "ok"
        /\ \A i \in Indices(ty) :
              /\ FLe(Component(b0, i), Component(arg, i)) =>
                    Same(Component(ret.val, i),
                         IF IsNaN(Component(a0, i)) THEN Component(arg, i) ELSE ClampVecFormula(i))
              /\ FGt(Component(b0, i), Component(arg, i)) =>
                    Same(Component(ret.val, i), Component(b0, i))

\* Vec3::clamp has returned min in a component whose min is above its max, and
\* a clamped value in a component whose bounds are ordered.
C27_Witness ==
    /\ DoneVec3Clamp
    /\ \E i, j \in Indices(ty) :
          /\ FGt(Component(b0, i), Component(arg, i)) /\ Component(ret.val, i) = Component(b0, i)
          /\ FLt(Component(b0, j), Component(arg, j)) /\ ~IsNaN(Component(a0, j))
          /\ FGt(Component(a0, j), Component(arg, j)) /\ Component(ret.val, j) = Component(arg, j)

\* ------------------------------------------------------------------ C28

\* A Euclidean division or remainder has been taken by the trait, by a scalar
\* (in s) or by a vector (in b0); the divisor of component i.
DoneEuclid ==
    /\ Done("trait")
    /\ op \in {"rem_euclid", "div_euclid", "rem_euclid_vec", "div_euclid_vec"}
ScalarEuclid == op \in {"rem_euclid", "div_euclid"}
EuclidDivisor(i) == IF ScalarEuclid THEN s ELSE Component(b0, i)
NonZeroDivisors ==
    \A i \in Indices(ty) : ~IsZero(EuclidDivisor(i)) /\ ~IsNaN(EuclidDivisor(i))
\* The divisor of the call broadcast to a vector.
SplatOfScalar == IF ty = "Vec3" THEN Vec3_splat(s) ELSE Vec4_splat(s)
\* The outcomes of the vector form of the call made, on the broadcast divisor.
VectorFormOnSplat ==
    IF op = "rem_euclid" THEN VecExt_rem_euclid_vec(ty, a0, SplatOfScalar)
    ELSE VecExt_div_euclid_vec(ty, a0, SplatOfScalar)
\* a[i] == q[i] * b[i] + r[i], with 0 <= r[i] < |b[i]|, for the quotient and
\* the remainder of component i.
EuclidIdentity(i) ==
    LET x == Component(a0, i)
        q == f32_div_euclid(x, EuclidDivisor(i))
        r == f32_rem_euclid(x, EuclidDivisor(i))
    IN  /\ FEq(x, FAdd(FMul(q, EuclidDivisor(i)), r))
        /\ FLe(PZero, r) /\ FLt(r, f32_abs(EuclidDivisor(i)))
        /\ Same(Component(ret.val, i), IF op \in {"rem_euclid", "rem_euclid_vec"} THEN r ELSE q)

\* C28: for every a and non-zero divisor, scalar or per component, the calls
\* return, a[i] == div_euclid(a, b)[i] * b[i] + rem_euclid(a, b)[i] with the
\* remainder in [0, |b[i]|), and the scalar forms return what the vector forms
\* return on splat(b).
C28_EuclidDivisionIdentity ==
    (DoneEuclid /\ NonZeroDivisors) =>
        /\ ret.kind = "ok"
        /\ \A i \in Indices(ty) : EuclidIdentity(i)
        /\ ScalarEuclid => ret \in VectorFormOnSplat

\* ------------------------------------------------------------------ C29

DoneYaw(o) == pc = "done" /\ op = o /\ form = "method"
\* forward is (sn, 0, cs) and right is (cs, 0, -sn) for a pair (sn, cs) that
\* sin_cos returns for the yaw of the call.
IsForward(v) == \E sc \in f32_sin_cos(s) : v = Vec3_new(sc[1], PZero, sc[2])
IsRight(v) == \E sc \in f32_sin_cos(s) : v = Vec3_new(sc[2], PZero, FNegate(sc[1]))
YawShapes ==
    /\ DoneYaw("forward_from_yaw") => (ret.kind = "ok" /\ IsForward(ret.val))
    /\ DoneYaw("right_from_yaw") => (ret.kind = "ok" /\ IsRight(ret.val))
    /\ DoneYaw("forward_and_right_from_yaw") =>
          /\ ret.kind = "ok" /\ IsForward(ret.val[1]) /\ IsRight(ret.val[2])
          /\ ret.val[2].x = ret.val[1].z /\ ret.val[2].z = FNegate(ret.val[1].x)
          /\ IsZero(ret.val[1].y) /\ IsZero(ret.val[2].y)
Orthogonal == FEq(Vec3_dot(ret.val[1], ret.val[2]), PZero)
ToWorldInStandardBasis ==
    DoneYaw("to_world") /\ arg = <<Vec3_X, Vec3_Y, Vec3_Z>>

\* C29 as stated: for every yaw the three functions return (s, 0, c) and
\* (c, 0, -s), with zero y and forward.dot(right) == 0, and
\* v.to_world(X, Y, Z) returns v for every v.
C29_AsStated ==
    /\ YawShapes
    /\ DoneYaw("forward_and_right_from_yaw") => Orthogonal
    /\ ToWorldInStandardBasis => (ret.kind = "ok" /\ SameVec(ty, ret.val, a0))

\* C29, amended: for every yaw the three functions return (s, 0, c) and
\* (c, 0, -s) with zero y; forward.dot(right) == 0 for every finite yaw (for an
\* infinite or NaN yaw it is NaN); v.to_world(X, Y, Z) returns v for every v
\* with finite components.
C29_YawBasis ==
    /\ YawShapes
    /\ DoneYaw("forward_and_right_from_yaw") =>
          IF IsFin(s) THEN Orthogonal ELSE IsNaN(Vec3_dot(ret.val[1], ret.val[2]))
    /\ (ToWorldInStandardBasis /\ \A i \in Indices(ty) : IsFin(Component(a0, i))) =>
          (ret.kind = "ok" /\ SameVec(ty, ret.val, a0))

\* forward_and_right_from_yaw has returned two vectors, neither along an axis,
\* that are orthogonal.
C29_Witness ==
    /\ DoneYaw("forward_and_right_from_yaw") /\ IsFin(s) /\ Orthogonal
    /\ ~IsZero(ret.val[1].x) /\ ~IsZero(ret.val[1].z)

\* ------------------------------------------------------------------ C30

\* -v, a + b and a - b by the operators of the type of the call.
NegOf(v) == IF ty = "Vec3" THEN Vec3_neg(v) ELSE Vec4_neg(v)
AllFinite(v) == \A i \in Indices(ty) : IsFin(Component(v, i))
DoneNeg == pc = "done" /\ op = "neg" /\ form = "neg"
DoneSub == pc = "done" /\ op = "sub" /\ form = "vec_vec" /\ ty \in VecExt_types
DoneDistance2 == pc = "done" /\ op = "distance_2" /\ form \in {"trait", "method"}
\* The outcomes of x.distance_2(y) in the form of the call made.
Distance2(x, y) ==
    IF form = "trait" THEN VecExt_distance_2(ty, x, y) ELSE {Ok(Vec3_distance_2(x, y))}
\* -v has every component negated, and -(-v) == v.
NegationInvolutive ==
    DoneNeg =>
        /\ ret.kind = "ok"
        /\ \A i \in Indices(ty) : Same(Component(ret.val, i), FNegate(Component(a0, i)))
        /\ SameVec(ty, NegOf(ret.val), a0)
\* a - b == a + (-b)
SubtractionAddsNegation ==
    DoneSub =>
        (ret.kind = "ok" /\ SameVec(ty, ret.val, Self_op_Self(ty, "add", a0, NegOf(b0))))
\* distance_2(a, b) == length_2(a - b) == distance_2(b, a)
DistanceSymmetric ==
    DoneDistance2 =>
        /\ ret.kind = "ok"
        /\ Same(ret.val, SquaredLength(Self_op_Self(ty, "sub", a0, b0)))
        /\ \A r \in Distance2(b0, a0) : Same(ret.val, r.val)

\* C30 as stated: -v has every component negated, -(-v) == v,
\* v + (-v) == ZERO, a - b == a + (-b),
\* distance_2(a, b) == length_2(a - b) == distance_2(b, a), and
\* distance_2(a, a) == 0, for all vectors.
C30_AsStated ==
    /\ NegationInvolutive /\ SubtractionAddsNegation /\ DistanceSymmetric
    /\ DoneNeg => SameVec(ty, Self_op_Self(ty, "add", a0, ret.val), Default(ty))
    /\ (DoneDistance2 /\ SameVec(ty, a0, b0)) => FEq(ret.val, PZero)

\* C30, amended: as stated, with v + (-v) == ZERO for every v with finite
\* components and distance_2(a, a) == 0 for every a with finite components
\* (an infinite or NaN component makes the sum, and the distance, NaN).
C30_NegationAndDistance ==
    /\ NegationInvolutive /\ SubtractionAddsNegation /\ DistanceSymmetric
    /\ DoneNeg =>
          IF AllFinite(a0) THEN SameVec(ty, Self_op_Self(ty, "add", a0, ret.val), Default(ty))
          ELSE \E i \in Indices(ty) :
                  IsNaN(Component(Self_op_Self(ty, "add", a0, ret.val), i))
    /\ (DoneDistance2 /\ a0 = b0) =>
          IF AllFinite(a0) THEN FEq(ret.val, PZero) ELSE IsNaN(ret.val)

\* The squared distance of two different finite vectors has been taken and
\* is not zero.
C30_Witness ==
    /\ DoneDistance2 /\ AllFinite(a0) /\ AllFinite(b0) /\ a0 # b0
    /\ IsFin(ret.val) /\ ~IsZero(ret.val)
    /\ \A r \in Distance2(b0, a0) : r.val = ret.val

====
